---- MODULE Spec2Model ----
(***************************************************************************)
(* Model of curses_server_testing.py: the multiplexed (curses) endpoint    *)
(* tester.  main_curses is the orchestrator loop, run_tests_curses the     *)
(* fan-out/fan-in of one probe coroutine per server, CursesUI the          *)
(* per-endpoint state (server_windows) with header and footer.             *)
(*                                                                         *)
(* One action is one run of the scheduler thread between two suspension    *)
(* points (await asyncio.gather, await asyncio.to_thread, await            *)
(* asyncio.sleep) or one pass of a loop of main_curses.  The terminal's    *)
(* input queue is the one-slot variable key, filled by the user            *)
(* (PressKey) and emptied by check_input.                                  *)
(***************************************************************************)
EXTENDS Integers, Sequences, FiniteSets, TLC

\* ------------------------------------------------------------------ bounds
\* cap on the iteration counter of main_curses (the code has none)
MaxIter == 2
\* largest --delay, in passes of the countdown loop
MaxDelay == 2
\* cap on the iteration counter in the runs of SpecLog
MaxLogIter == 3
\* at most this many remote calls of a run end otherwise than with a
\* complete response (content and usage present)
MaxFaults == 1
\* largest number of endpoints a layout is computed for
MaxServers == 12
\* largest --delay, in seconds, of the runs that follow the countdown
MaxCountdown == 10
\* clock readings per second in those runs
TicksPerSecond == 10
\* a pass of the countdown loop takes 1 to MaxPassTicks clock readings
MaxPassTicks == 3
\* messages appended in a run of the message-log specification
MaxWindowLog == 4
\* probe steps followed in the redraw specification
MaxRedraws == 2

\* --------------------------------------------------------- program constants
\* "Only keep last 20 messages"
MaxLines == 20
header_height == 3
footer_height == 3

\* datetime / token fields that are still None
None == -1

\* ------------------------------------------------------------- descriptors
\* The ordered endpoint lists main_curses can be started with: one endpoint
\* with a literal credential, one whose credential is an environment
\* reference or is not given ("" stands for a missing or empty openai_api_key).
Configs ==
  { << [shortname |-> "scout", openai_model |-> "scout",   openai_api_key |-> "CELS",
         openai_api_base |-> "http://66.55.67.65:80/v1"],
       [shortname |-> "gpt41", openai_model |-> "gpt-4.1", openai_api_key |-> k,
         openai_api_base |-> "https://api.openai.com/v1"] >> :
      k \in {"${OPENAI_API_KEY}", ""} }

\* the built-in defaults ("If no servers loaded, use default test
\* configurations")
default_servers ==
  << [shortname |-> "gpt41",  openai_model |-> "gpt-4.1", openai_api_key |-> "${OPENAI_API_KEY}",
      openai_api_base |-> "https://api.openai.com/v1"],
     [shortname |-> "o3",     openai_model |-> "o3",      openai_api_key |-> "${OPENAI_API_KEY}",
      openai_api_base |-> "https://api.openai.com/v1"],
     [shortname |-> "o4mini", openai_model |-> "o4-mini", openai_api_key |-> "${OPENAI_API_KEY}",
      openai_api_base |-> "https://api.openai.com/v1"] >>

\* is_openai_server: "'api.openai.com' in api_base", over the base URLs of
\* the descriptors above
is_openai_server(server) == server.openai_api_base \in {"https://api.openai.com/v1"}

\* a filter that lets every descriptor through
filter_servers_all(list, only_cels) == list

filter_servers(list, only_cels) ==
  IF only_cels THEN SelectSeq(list, LAMBDA server : ~is_openai_server(server)) ELSE list

\* What the descriptor source can hold: no file, a file that cannot be
\* read, text that is not YAML, an empty file, a mapping without "servers",
\* "servers:" with no value or with an empty list, or a list of descriptors
LoadableLists == Configs \cup { << default_servers[1] >> }
Sources ==
  { [kind |-> k, servers |-> << >>] :
      k \in {"missing", "unreadable", "malformed", "empty_file", "no_servers_key",
             "null_servers", "empty_list"} }
  \cup { [kind |-> "servers", servers |-> l] : l \in LoadableLists }

\* load_server_config: the value returned (is_none: it is None) and whether
\* the except clause has printed
load_server_config(source) ==
  IF source.kind \in {"missing", "unreadable", "malformed", "empty_file"}
    THEN [value |-> << >>, is_none |-> FALSE, printed |-> TRUE]
  ELSE IF source.kind = "null_servers"
    THEN [value |-> << >>, is_none |-> TRUE, printed |-> FALSE]
  ELSE [value |-> source.servers, is_none |-> FALSE, printed |-> FALSE]

\* the source a list of descriptors in use has come from
ConfigOf(list) ==
  IF list = default_servers THEN [kind |-> "missing", servers |-> << >>]
  ELSE [kind |-> "servers", servers |-> list]

\* keys of MODEL_PARAMS
MODEL_PARAMS == {"o3", "o4-mini", "gpt-4.1", "scout", "Qwen", "meta-llama/Llama-3.3-70B-Instruct"}

\* terminal sizes (rows, columns) the display can have; the run starts on the first
InitialSize == <<24, 80>>
TermSizes == {InitialSize, <<40, 120>>}

\* what the user can type; "none" is an empty input queue
Keys == {"q", "r", "KEY_RESIZE", "x"}

\* what the remote call can do: return a response or raise
Errors == {"AuthenticationError", "RateLimitError", "APIConnectionError",
           "APITimeoutError", "APIError", "Exception"}
Responses ==
  [choices : {0, 1}, content : {"", "4"}, usage : {"present", "missing", "null"}]
\* response.usage.total_tokens of a response that carries usage
total_tokens == 17
Outcomes ==
  {[raised |-> e, choices |-> 0, content |-> "", usage |-> "missing"] : e \in Errors}
  \cup {[raised |-> "no", choices |-> r.choices, content |-> r.content, usage |-> r.usage] :
          r \in {q \in Responses : q.choices = 1 \/ (q.content = "" /\ q.usage = "missing")}}

VARIABLES
  servers,         \* the endpoint descriptors (fixed after load)
  pc,              \* position of main_curses
  running, test_completed, iteration, cmd,   \* locals of main_curses
  delay,           \* args.delay
  wait_start,      \* local of main_curses (Cooldown start)
  now,             \* the clock
  key,             \* the terminal's pending input
  term,            \* stdscr.getmaxyx()
  env_set,         \* whether OPENAI_API_KEY is set (non-empty) in the environment
  server_windows,  \* CursesUI.server_windows
  header,          \* iteration shown by the header window
  footer,          \* message shown by the footer window
  task,            \* position of each probe coroutine
  result,          \* return value of each probe coroutine
  all_success,     \* return value of run_tests_curses
  appended,        \* history: entries appended to each log since its creation
  faults,          \* history: remote calls that did not return a complete response
  dispatches,      \* history: how many times the probes were dispatched
  issued,          \* history: remote calls issued for each endpoint since the last dispatch
  stdout,          \* what the process has printed (console mode, and main's messages)
  exit_status,     \* exit status of the process (None while it runs)
  config,          \* what the descriptor source (--config) holds
  cels_only        \* args.cels_only

vars == << servers, pc, running, test_completed, iteration, cmd, delay, wait_start, now,
           key, term, env_set, server_windows, header, footer, task, result,
           all_success, appended, faults, dispatches, issued, stdout, exit_status,
           config, cels_only >>

NumServers == Len(servers)
Idx == 1..NumServers
Names == {servers[i].shortname : i \in Idx}

\* ------------------------------------------------------------ LayoutEngine
\* a grid whose last branch rounds the number of rows down
GridRowsFloor(num_servers) ==
  IF num_servers <= 2 THEN 1
  ELSE IF num_servers <= 4 THEN 2
  ELSE IF num_servers <= 6 THEN 2
  ELSE IF num_servers <= 9 THEN 3
  ELSE num_servers \div 3

\* setup_windows: "Determine grid layout based on number of servers"
GridRows(num_servers) ==
  IF num_servers <= 2 THEN 1
  ELSE IF num_servers <= 4 THEN 2
  ELSE IF num_servers <= 6 THEN 2
  ELSE IF num_servers <= 9 THEN 3
  ELSE (num_servers + 2) \div 3

\* a grid that never has a third column
GridColsNarrow(num_servers) ==
  IF num_servers <= 2 THEN num_servers ELSE 2

GridCols(num_servers) ==
  IF num_servers <= 2 THEN num_servers
  ELSE IF num_servers <= 4 THEN 2
  ELSE 3

\* windows placed by column first (row and column exchanged)
WindowTransposed(i, t) ==
  LET rows == GridRows(NumServers)
      cols == GridCols(NumServers)
      win_height == (t[1] - header_height - footer_height) \div rows
      win_width == t[2] \div cols
  IN [h |-> win_height, w |-> win_width,
      y |-> header_height + (((i - 1) % rows) * win_height),
      x |-> ((i - 1) \div rows) * win_width]

\* curses.newwin(win_height, win_width, y, x) of the i-th server (i from 1)
Window(i, t) ==
  LET rows == GridRows(NumServers)
      cols == GridCols(NumServers)
      available_height == t[1] - header_height - footer_height
      win_height == available_height \div rows
      win_width == t[2] \div cols
      row == (i - 1) \div cols
      col == (i - 1) % cols
  IN [h |-> win_height, w |-> win_width,
      y |-> header_height + (row * win_height), x |-> col * win_width]

\* a dictionary whose token count starts at zero
NewServerInfoCounted(i, t) ==
  [window |-> Window(i, t), model |-> servers[i].openai_model,
   status |-> "Waiting", lines |-> << >>, start_time |-> None, end_time |-> None,
   response_time |-> None, tokens |-> 0, response_ok |-> FALSE]

\* the dictionary setup_windows stores under a shortname
NewServerInfo(i, t) ==
  [window |-> Window(i, t), model |-> servers[i].openai_model,
   status |-> "Waiting", lines |-> << >>, start_time |-> None, end_time |-> None,
   response_time |-> None, tokens |-> None, response_ok |-> FALSE]

\* index of the last descriptor carrying a shortname (a later one overwrites)
IndexOf(n) == CHOOSE i \in Idx : servers[i].shortname = n /\ \A j \in Idx : servers[j].shortname = n => j <= i

\* every window created at the first position of the grid
SetupWindowsStacked(t) ==
  [n \in Names |-> [NewServerInfo(IndexOf(n), t) EXCEPT !.window = Window(1, t)]]

\* self.server_windows after setup_windows(servers) on a terminal of size t
SetupWindows(t) == [n \in Names |-> NewServerInfo(IndexOf(n), t)]

\* ------------------------------------------------------------ EndpointState
Entry(message, is_error) == [timestamp |-> now, message |-> message, is_error |-> is_error]

\* a log that keeps the oldest 20 messages instead
KeepFirst(lines) ==
  IF Len(lines) > MaxLines THEN SubSeq(lines, 1, MaxLines) ELSE lines

\* "Only keep last 20 messages"
KeepLast(lines) ==
  IF Len(lines) > MaxLines THEN SubSeq(lines, Len(lines) - MaxLines + 1, Len(lines)) ELSE lines

\* a log append that reaches the log of every endpoint
add_server_message_all(sw, shortname, message, is_error) ==
  [n \in DOMAIN sw |-> [sw[n] EXCEPT !.lines = KeepLast(Append(@, Entry(message, is_error)))]]

add_server_message(sw, shortname, message, is_error) ==
  IF shortname \notin DOMAIN sw THEN sw
  ELSE [sw EXCEPT ![shortname].lines = KeepLast(Append(@, Entry(message, is_error)))]

update_server_status(sw, shortname, status) ==
  IF shortname \notin DOMAIN sw THEN sw
  ELSE LET old_status == sw[shortname].status
           s1 == [sw EXCEPT ![shortname].status = status]
       IN IF old_status = "Waiting" /\ status = "Running"
            THEN [s1 EXCEPT ![shortname].start_time = now]
          ELSE IF status \in {"Success", "Failed"} /\ s1[shortname].start_time # None
            THEN [s1 EXCEPT ![shortname].end_time = now]
          ELSE s1

\* One call a probe makes on the UI state, in the order of the code.
Msg(message) == [call |-> "add_server_message", message |-> message, is_error |-> FALSE, value |-> None]
Err(message) == [call |-> "add_server_message", message |-> message, is_error |-> TRUE, value |-> None]
Status(status) == [call |-> "update_server_status", message |-> status, is_error |-> FALSE, value |-> None]
SetField(field, value) == [call |-> field, message |-> "", is_error |-> FALSE, value |-> value]
SetOk(b) == [call |-> "response_ok", message |-> "", is_error |-> b, value |-> None]

ApplyCall(sw, shortname, c) ==
  IF c.call = "add_server_message" THEN add_server_message(sw, shortname, c.message, c.is_error)
  ELSE IF c.call = "update_server_status" THEN update_server_status(sw, shortname, c.message)
  ELSE IF shortname \notin DOMAIN sw THEN sw
  ELSE IF c.call = "response_time" THEN [sw EXCEPT ![shortname].response_time = c.value]
  ELSE IF c.call = "tokens" THEN [sw EXCEPT ![shortname].tokens = c.value]
  ELSE [sw EXCEPT ![shortname].response_ok = c.is_error]

RECURSIVE ApplyCalls(_, _, _)
ApplyCalls(sw, shortname, calls) ==
  IF calls = << >> THEN sw
  ELSE ApplyCalls(ApplyCall(sw, shortname, Head(calls)), shortname, Tail(calls))

\* the entries a list of calls appends (history only)
RECURSIVE Appended(_)
Appended(calls) ==
  IF calls = << >> THEN << >>
  ELSE (IF Head(calls).call = "add_server_message"
          THEN << Entry(Head(calls).message, Head(calls).is_error) >> ELSE << >>)
       \o Appended(Tail(calls))

\* ------------------------------------------------------------------ Prober
\* the client library's exception classes, each with its direct base
Base(e) ==
  CASE e = "AuthenticationError" -> "APIStatusError"
    [] e = "RateLimitError" -> "APIStatusError"
    [] e = "APIStatusError" -> "APIError"
    [] e = "APITimeoutError" -> "APIConnectionError"
    [] e = "APIConnectionError" -> "APIError"
    [] e = "APIError" -> "Exception"
    [] e = "AttributeError" -> "Exception"
    [] OTHER -> "Exception"

RECURSIVE IsInstance(_, _)
IsInstance(e, class) ==
  IF e = class THEN TRUE ELSE IF e = "Exception" THEN FALSE ELSE IsInstance(Base(e), class)

\* the except clauses of the outer try of test_openai_endpoint_curses, in order
Handlers ==
  << [class |-> "RateLimitError",     message |-> "Rate limit exceeded"],
     [class |-> "APIConnectionError", message |-> "Connection error"],
     [class |-> "APITimeoutError",    message |-> "Timeout error"],
     [class |-> "APIError",           message |-> "OpenAI API Error"],
     [class |-> "Exception",          message |-> "Unexpected error"] >>

\* the first clause that catches e
Handler(e) == Handlers[CHOOSE k \in 1..Len(Handlers) :
                 /\ IsInstance(e, Handlers[k].class)
                 /\ \A j \in 1..(k - 1) : ~IsInstance(e, Handlers[j].class)]

\* an except clause that logs the error but leaves the status
CaughtLogOnly(e) == << Err(Handler(e).message) >>

\* what an except clause does
Caught(e) == << Err(Handler(e).message), Status("Failed") >>

\* a probe that does not show the endpoint as Running
ProbeBeginCallsNoRunning == << Msg("API Base"), Msg("Starting test...") >>

\* test_server_curses and the first two lines of test_openai_endpoint_curses
ProbeBeginCalls == << Msg("API Base"), Status("Running"), Msg("Starting test...") >>

\* a probe that goes on to the remote call whatever the credential
ProbeRequestCallsUnchecked(server) ==
  [calls |-> << Msg("Creating OpenAI client...") >>
             \o (IF server.openai_model \in MODEL_PARAMS THEN << Msg("Parameters") >> ELSE << >>)
             \o << Msg("Sending request...") >>,
   called |-> TRUE]

\* test_openai_endpoint_curses from the credential lookup up to the remote
\* call: the UI calls made and whether the coroutine goes on to the call
ProbeRequestCalls(server) ==
  LET api_key == server.openai_api_key
      request == << Msg("Creating OpenAI client...") >>
                 \o (IF server.openai_model \in MODEL_PARAMS THEN << Msg("Parameters") >> ELSE << >>)
                 \o << Msg("Sending request...") >>
  IN IF api_key = "" /\ ~env_set
       THEN [calls |-> << Err("Error: OPENAI_API_KEY environment variable not set"),
                          Status("Failed") >>, called |-> FALSE]
     ELSE IF api_key = "${OPENAI_API_KEY}" /\ ~env_set
       THEN [calls |-> << Err("Error: Environment variable not set"),
                          Status("Failed") >>, called |-> FALSE]
     ELSE [calls |-> request, called |-> TRUE]

\* test_openai_endpoint_curses from the return of the remote call on:
\* the UI calls made and the value returned
ProbeReturnCalls(o) ==
  IF o.raised = "AuthenticationError"
    THEN [calls |-> << Err("Authentication error: Invalid API key"), Status("Failed") >>,
          value |-> FALSE]
  ELSE IF o.raised # "no"
    THEN [calls |-> Caught(o.raised), value |-> FALSE]
  ELSE IF o.choices = 0
    THEN [calls |-> << Err("Error: No valid response received"), Status("Failed") >>,
          value |-> FALSE]
  ELSE IF o.usage = "null"
    \* response.usage.total_tokens of None raises AttributeError
    THEN [calls |-> << Msg("Response received"), SetField("response_time", 0) >>
                    \o Caught("AttributeError"), value |-> FALSE]
  ELSE [calls |-> << Msg("Response received"), SetField("response_time", 0) >>
                  \o (IF o.usage = "present" THEN << SetField("tokens", total_tokens) >> ELSE << >>)
                  \o << SetOk(o.content # "") >>
                  \o (IF o.content = ""
                        THEN << Err("Response: EMPTY (model connected but returned no content)") >>
                        ELSE << Msg("Response: OK (content received)") >>)
                  \o (IF o.usage = "present" THEN << Msg("Tokens") >> ELSE << >>)
                  \o << Status("Success") >>,
        value |-> TRUE]

uiVars == << server_windows, appended, header, footer, term >>
mainVars == << pc, running, test_completed, iteration, cmd, wait_start, all_success >>
envVars == << servers, delay, env_set, config, cels_only >>
histVars == << faults, dispatches, issued >>
procVars == << stdout, exit_status >>
Complete(o) == o.raised = "no" /\ o.choices = 1 /\ o.content # "" /\ o.usage = "present"

\* a scheduler that would let a second coroutine in at any time
Preempted == FALSE

\* the scheduler thread is inside the first run of some probe coroutine
Busy == \E j \in Idx : task[j] = "started"

\* the i-th probe coroutine starts (tasks start in the order of the list):
\* the endpoint is shown as Running
ProbeStart(i) ==
  /\ pc = "await"
  /\ task[i] = "ready"
  /\ ~Busy
  /\ \A j \in 1..(i - 1) : task[j] # "ready"
  /\ LET n == servers[i].shortname
     IN /\ server_windows' = ApplyCalls(server_windows, n, ProbeBeginCalls)
        /\ appended' = [appended EXCEPT ![n] = @ \o Appended(ProbeBeginCalls)]
  /\ task' = [task EXCEPT ![i] = "started"]
  /\ UNCHANGED << procVars, histVars, result, mainVars, envVars, header, footer, term, now, key >>

\* the same run of the coroutine goes on: the credential is resolved and the
\* remote call handed to a worker thread (first suspension), or the probe
\* returns False
ProbeRequest(i) ==
  /\ pc = "await"
  /\ task[i] = "started"
  /\ LET n == servers[i].shortname
         p == ProbeRequestCalls(servers[i])
     IN /\ server_windows' = ApplyCalls(server_windows, n, p.calls)
        /\ appended' = [appended EXCEPT ![n] = @ \o Appended(p.calls)]
        /\ task' = [task EXCEPT ![i] = IF p.called THEN "inflight" ELSE "returned"]
        /\ result' = [result EXCEPT ![i] = FALSE]
        /\ issued' = [issued EXCEPT ![i] = IF p.called THEN @ + 1 ELSE @]
  /\ UNCHANGED << procVars, faults, dispatches, mainVars, envVars, header, footer, term, now, key >>

\* a probe that starts over when its attempt has failed
ReturnOrRetry(value) == IF value THEN "returned" ELSE "started"

\* "return True" / "return False": the coroutine is finished
Return(value) == "returned"

\* the worker thread finishes the remote call of the i-th probe with outcome o
\* (at most cap calls of a run end otherwise than with a complete response)
ProbeReturnWithin(i, o, cap) ==
  /\ pc = "await"
  /\ task[i] = "inflight"
  /\ ~Busy
  /\ Complete(o) \/ faults < cap
  /\ faults' = IF Complete(o) THEN faults ELSE faults + 1
  /\ LET n == servers[i].shortname
         p == ProbeReturnCalls(o)
     IN /\ server_windows' = ApplyCalls(server_windows, n, p.calls)
        /\ appended' = [appended EXCEPT ![n] = @ \o Appended(p.calls)]
        /\ task' = [task EXCEPT ![i] = Return(p.value)]
        /\ result' = [result EXCEPT ![i] = p.value]
  /\ UNCHANGED << procVars, dispatches, issued, mainVars, envVars, header, footer, term, now, key >>

ProbeReturn(i, o) == ProbeReturnWithin(i, o, MaxFaults)

\* ------------------------------------------------------------- InputPoller
\* a poller that takes any key for a quit request
check_input_any_key(k) ==
  IF k \in {"none", "error"} THEN "None" ELSE "quit"

\* check_input: the command for the key getch returns ("none": timeout,
\* "error": getch raises, which the bare except swallows)
check_input(k) ==
  IF k = "q" THEN "quit"
  ELSE IF k = "r" THEN "refresh"
  ELSE IF k = "KEY_RESIZE" THEN "resize"
  ELSE "None"

\* the user types while the input queue is empty
PressKey(k) ==
  /\ pc \notin {"done", "exited"}
  /\ key = "none"
  /\ key' = k
  /\ UNCHANGED << procVars, histVars, mainVars, envVars, uiVars, now, task, result >>

\* ---------------------------------------------------------------- Renderer
Footer(message, success, countdown) ==
  [message |-> message, success |-> success, countdown |-> countdown]

\* setup_windows(servers) on a terminal of size t: every endpoint state is
\* created anew, the header is redrawn without iteration, the footer reset
setup_windows(t) ==
  /\ term' = t
  /\ server_windows' = SetupWindows(t)
  /\ appended' = [n \in Names |-> << >>]
  /\ header' = 0
  /\ footer' = Footer("Ready to start tests...", "None", FALSE)

\* handle_resize(servers): curses is restarted at the new size t
handle_resize(t) == setup_windows(t)

\* ------------------------------------------------------------ Orchestrator
\* a loop that goes round again whatever running holds
LoopTopAgain(r) == "poll"

\* "while running:" with running already assigned
LoopTop(r) == IF r THEN "poll" ELSE "exit"

\* top of the loop of main_curses: "Check for user input"
PollQuit ==
  /\ pc = "poll"
  /\ check_input(key) = "quit"
  /\ cmd' = "quit"
  /\ key' = "none"
  /\ running' = FALSE
  /\ pc' = "test"
  /\ UNCHANGED << procVars, histVars, test_completed, iteration, wait_start, all_success, envVars, uiVars,
                  now, task, result >>

PollRefresh ==
  /\ pc = "poll"
  /\ check_input(key) = "refresh"
  /\ cmd' = "refresh"
  /\ key' = "none"
  /\ setup_windows(term)
  /\ pc' = "test"
  /\ UNCHANGED << procVars, histVars, running, test_completed, iteration, wait_start, all_success, envVars,
                  now, task, result >>

PollResize ==
  /\ pc = "poll"
  /\ check_input(key) = "resize"
  /\ cmd' = "resize"
  /\ key' = "none"
  /\ \E t \in TermSizes : handle_resize(t)
  /\ pc' = "test"
  /\ UNCHANGED << procVars, histVars, running, test_completed, iteration, wait_start, all_success, envVars,
                  now, task, result >>

PollNone ==
  /\ pc = "poll"
  /\ check_input(key) = "None"
  /\ cmd' = "None"
  /\ key' = "none"
  /\ pc' = "test"
  /\ UNCHANGED << procVars, histVars, running, test_completed, iteration, wait_start, all_success, envVars,
                  uiVars, now, task, result >>

\* "if not test_completed:" taken: run_tests_curses up to the gather, which
\* creates one task per server
Dispatch ==
  /\ pc = "test"
  /\ ~test_completed
  /\ header' = iteration
  /\ footer' = Footer("Starting tests on all servers...", "None", FALSE)
  /\ task' = [i \in Idx |-> "ready"]
  /\ result' = [i \in Idx |-> FALSE]
  /\ dispatches' = dispatches + 1
  /\ issued' = [i \in Idx |-> 0]
  /\ pc' = "await"
  /\ UNCHANGED << procVars, faults, cmd, running, test_completed, iteration, wait_start,
                  all_success, envVars, server_windows, appended, term, now, key >>

\* "if not test_completed:" not taken: back to "while running:"
SkipTests ==
  /\ pc = "test"
  /\ test_completed
  /\ pc' = LoopTop(running)
  /\ UNCHANGED << procVars, histVars, cmd, running, test_completed, iteration, wait_start, all_success,
                  envVars, uiVars, now, key, task, result >>

\* a wait that resumes as soon as one task has returned
GatheredAny == \E i \in Idx : task[i] = "returned"

\* asyncio.gather resumes run_tests_curses once every task has returned
Gathered == \A i \in Idx : task[i] = "returned"

\* a summary that is content with one success
any(results) == \E i \in DOMAIN results : results[i]

\* the built-in all() on the list of the probes' return values
all(results) == \A i \in DOMAIN results : results[i]

\* the rest of run_tests_curses: all(results) and the summary footer
Summary ==
  /\ pc = "await"
  /\ Gathered
  /\ all_success' = all(result)
  /\ footer' = IF all_success'
                 THEN Footer("All tests completed successfully!", "True", FALSE)
                 ELSE Footer("Some tests failed.", "False", FALSE)
  /\ pc' = "summary"
  /\ UNCHANGED << procVars, histVars, cmd, running, test_completed, iteration, wait_start, envVars,
                  server_windows, appended, header, term, now, key, task, result >>

\* a loop that forgets that the single run is done
AfterTestsNoDelayForgetting ==
  /\ pc = "summary"
  /\ ~(delay > 0)
  /\ test_completed' = FALSE
  /\ pc' = LoopTop(running)
  /\ UNCHANGED << procVars, histVars, cmd, running, iteration, wait_start, all_success, envVars, uiVars,
                  now, key, task, result >>

\* main_curses after run_tests_curses, no delay: back to "while running:"
AfterTestsNoDelay ==
  /\ pc = "summary"
  /\ ~(delay > 0)
  /\ test_completed' = TRUE
  /\ pc' = LoopTop(running)
  /\ UNCHANGED << procVars, histVars, cmd, running, iteration, wait_start, all_success, envVars, uiVars,
                  now, key, task, result >>

\* main_curses after run_tests_curses, with a delay: the Cooldown begins
AfterTestsDelay ==
  /\ pc = "summary"
  /\ delay > 0
  /\ test_completed' = TRUE
  /\ footer' = Footer("Waiting before next test run...", "None", TRUE)
  /\ wait_start' = now
  /\ pc' = "cooldown"
  /\ UNCHANGED << procVars, histVars, cmd, running, iteration, all_success, envVars, server_windows,
                  appended, header, term, now, key, task, result >>

\* "while time.time() - wait_start < args.delay"
Waiting == now - wait_start < delay

\* one pass of the countdown loop: footer, check_input, sleep
CooldownNone ==
  /\ pc = "cooldown"
  /\ Waiting
  /\ check_input(key) = "None"
  /\ cmd' = "None"
  /\ key' = "none"
  /\ footer' = Footer("NEXT TEST", "None", TRUE)
  /\ now' = now + 1
  /\ UNCHANGED << procVars, histVars, pc, running, test_completed, iteration, wait_start, all_success,
                  envVars, server_windows, appended, header, term, task, result >>

\* a refresh that restarts the countdown
CooldownRefreshRestarting ==
  /\ pc = "cooldown"
  /\ Waiting
  /\ check_input(key) = "refresh"
  /\ cmd' = "refresh"
  /\ key' = "none"
  /\ setup_windows(term)
  /\ now' = now + 1
  /\ wait_start' = now'
  /\ UNCHANGED << procVars, histVars, pc, running, test_completed, iteration, all_success,
                  envVars, task, result >>

CooldownRefresh ==
  /\ pc = "cooldown"
  /\ Waiting
  /\ check_input(key) = "refresh"
  /\ cmd' = "refresh"
  /\ key' = "none"
  /\ setup_windows(term)
  /\ now' = now + 1
  /\ UNCHANGED << procVars, histVars, pc, running, test_completed, iteration, wait_start, all_success,
                  envVars, task, result >>

CooldownResize ==
  /\ pc = "cooldown"
  /\ Waiting
  /\ check_input(key) = "resize"
  /\ cmd' = "resize"
  /\ key' = "none"
  /\ \E t \in TermSizes : handle_resize(t)
  /\ now' = now + 1
  /\ UNCHANGED << procVars, histVars, pc, running, test_completed, iteration, wait_start, all_success,
                  envVars, task, result >>

\* a quit that counts the interrupted Cooldown as an iteration
CooldownQuitCounting ==
  /\ pc = "cooldown"
  /\ Waiting
  /\ check_input(key) = "quit"
  /\ cmd' = "quit"
  /\ key' = "none"
  /\ footer' = Footer("NEXT TEST", "None", TRUE)
  /\ running' = FALSE
  /\ iteration' = iteration + 1
  /\ pc' = "exit"
  /\ UNCHANGED << procVars, histVars, test_completed, wait_start, all_success, envVars,
                  server_windows, appended, header, term, now, task, result >>

\* quit during the countdown: break, then neither "if running" nor
\* "while running" holds
CooldownQuit ==
  /\ pc = "cooldown"
  /\ Waiting
  /\ check_input(key) = "quit"
  /\ cmd' = "quit"
  /\ key' = "none"
  /\ footer' = Footer("NEXT TEST", "None", TRUE)
  /\ running' = FALSE
  /\ pc' = LoopTop(running')
  /\ UNCHANGED << procVars, histVars, test_completed, iteration, wait_start, all_success, envVars,
                  server_windows, appended, header, term, now, task, result >>

\* the countdown loop ends by itself: "If still running, increment
\* iteration and reset test_completed"
NextIteration(it) == it + 1

CooldownEndWithin(cap) ==
  /\ pc = "cooldown"
  /\ ~Waiting
  /\ IF running /\ delay > 0
       THEN /\ iteration < cap
            /\ iteration' = NextIteration(iteration)
            /\ test_completed' = FALSE
       ELSE UNCHANGED << iteration, test_completed >>
  /\ pc' = LoopTop(running)
  /\ UNCHANGED << procVars, histVars, cmd, running, wait_start, all_success, envVars, uiVars, now, key,
                  task, result >>

\* a countdown that never hands over to a next iteration
CooldownEndStalled == CooldownEndWithin(1)

CooldownEnd == CooldownEndWithin(MaxIter)

\* "Final message before exiting"
Exit ==
  /\ pc = "exit"
  /\ footer' = Footer("Exiting test runner...", "None", FALSE)
  /\ pc' = "done"
  /\ UNCHANGED << procVars, histVars, cmd, running, test_completed, iteration, wait_start, all_success,
                  envVars, server_windows, appended, header, term, now, key, task, result >>

\* ------------------------------------------------------------ specification
\* main_curses up to "Main testing loop": the descriptors are loaded, the UI
\* is set up on the initial terminal
InitWith(configs, delays) ==
  /\ servers \in configs
  /\ config = ConfigOf(servers)
  /\ cels_only = FALSE
  /\ delay \in delays
  /\ env_set \in BOOLEAN
  /\ term = InitialSize
  /\ server_windows = SetupWindows(term)
  /\ appended = [n \in Names |-> << >>]
  /\ header = 0
  /\ footer = Footer("Ready to start tests...", "None", FALSE)
  /\ iteration = 1
  /\ running = TRUE
  /\ test_completed = FALSE
  /\ cmd = "None"
  /\ wait_start = 0
  /\ all_success = FALSE
  /\ now = 0
  /\ faults = 0
  /\ dispatches = 0
  /\ issued = [i \in Idx |-> 0]
  /\ stdout = << >>
  /\ exit_status = None
  /\ key = "none"
  /\ task = [i \in Idx |-> "none"]
  /\ result = [i \in Idx |-> FALSE]
  /\ pc = "poll"

Init == InitWith(Configs, {0, MaxDelay})

Next ==
  \/ \E k \in Keys : PressKey(k)
  \/ PollQuit
  \/ PollRefresh
  \/ PollResize
  \/ PollNone
  \/ Dispatch
  \/ SkipTests
  \/ \E i \in Idx : ProbeStart(i)
  \/ \E i \in Idx : ProbeRequest(i)
  \/ \E i \in Idx, o \in Outcomes : ProbeReturn(i, o)
  \/ Summary
  \/ AfterTestsNoDelay
  \/ AfterTestsDelay
  \/ CooldownNone
  \/ CooldownRefresh
  \/ CooldownResize
  \/ CooldownQuit
  \/ CooldownEnd
  \/ Exit

Spec == Init /\ [][Next]_vars

\* The same runs under the scheduling of the program: the event loop keeps
\* running the coroutine that can run (main_curses, or a probe that has been
\* created or whose remote call is over), and every remote call returns or
\* raises. Nothing is assumed about the keys the user presses.
Progress ==
  \/ PollQuit \/ PollRefresh \/ PollResize \/ PollNone
  \/ Dispatch \/ SkipTests
  \/ \E i \in Idx : ProbeStart(i)
  \/ \E i \in Idx : ProbeRequest(i)
  \/ \E i \in Idx, o \in Outcomes : ProbeReturn(i, o)
  \/ Summary \/ AfterTestsNoDelay \/ AfterTestsDelay
  \/ CooldownNone \/ CooldownRefresh \/ CooldownResize \/ CooldownQuit \/ CooldownEnd
  \/ Exit

SpecLive == Init /\ [][Next]_vars /\ WF_vars(Progress)

\* The same runs with reads that fail: the next getch of check_input raises
ReadFails ==
  /\ pc \notin {"done", "exited"}
  /\ key = "none"
  /\ key' = "error"
  /\ UNCHANGED << procVars, histVars, mainVars, envVars, uiVars, now, task, result >>

NextInput == Next \/ ReadFails

SpecInput == Init /\ [][NextInput]_vars

\* Runs with a delay in which every remote call returns a complete response:
\* the message logs grow by up to 8 entries per iteration.  (With a delay
\* the loop top is never reached with test_completed set.)
InitLog == Init /\ delay > 0

ProbeReturnComplete(i) == \E o \in {x \in Outcomes : Complete(x)} : ProbeReturn(i, o)

CooldownEndLog == CooldownEndWithin(MaxLogIter)

NextLog ==
  \/ \E k \in Keys : PressKey(k)
  \/ PollQuit
  \/ PollRefresh
  \/ PollResize
  \/ PollNone
  \/ Dispatch
  \/ \E i \in Idx : ProbeStart(i)
  \/ \E i \in Idx : ProbeRequest(i)
  \/ \E i \in Idx : ProbeReturnComplete(i)
  \/ Summary
  \/ AfterTestsDelay
  \/ CooldownNone
  \/ CooldownRefresh
  \/ CooldownResize
  \/ CooldownQuit
  \/ CooldownEndLog
  \/ Exit

SpecLog == InitLog /\ [][NextLog]_vars

\* Runs of main_curses on the built-in defaults, single pass: three
\* endpoints, and every remote call may end in any way.

InitDefaults == InitWith({default_servers}, {0})

ProbeReturnAny(i) == \E o \in Outcomes : ProbeReturnWithin(i, o, NumServers)

NextDefaults ==
  \/ \E k \in Keys : PressKey(k)
  \/ PollQuit
  \/ PollRefresh
  \/ PollResize
  \/ PollNone
  \/ Dispatch
  \/ SkipTests
  \/ \E i \in Idx : ProbeStart(i)
  \/ \E i \in Idx : ProbeRequest(i)
  \/ \E i \in Idx : ProbeReturnAny(i)
  \/ Summary
  \/ AfterTestsNoDelay
  \/ Exit

SpecDefaults == InitDefaults /\ [][NextDefaults]_vars

TypeOK ==
  /\ pc \in {"poll", "test", "await", "summary", "cooldown", "exit", "done"}
  /\ iteration \in 1..MaxIter
  /\ \A n \in Names : server_windows[n].status \in {"Waiting", "Running", "Success", "Failed"}

\* --------------------------------------------------------------- countdown
\* The footer of one pass of the countdown loop (update_footer(message,
\* countdown=True) with the numbers of the message kept apart), elapsed in clock readings
\* (TicksPerSecond to the second), total the delay in seconds:
\*   remaining = args.delay - elapsed;  int(remaining)
\*   percent_done = int((elapsed / args.delay) * 100)
\*   chars_filled = int(progress_width * percent_done / 100)
progress_width == 20

\* a countdown that rounds the percentage to the nearest whole number
CountdownMessageRounded(elapsed, total) ==
  LET percent_done == ((200 * elapsed) + (total * TicksPerSecond))
                        \div (2 * total * TicksPerSecond)
      chars_filled == (progress_width * percent_done) \div 100
  IN [message |-> "NEXT TEST", success |-> "None", countdown |-> TRUE,
      remaining |-> ((total * TicksPerSecond) - elapsed) \div TicksPerSecond,
      filled |-> chars_filled, blank |-> progress_width - chars_filled,
      percent |-> percent_done]

CountdownMessage(elapsed, total) ==
  LET percent_done == (100 * elapsed) \div (total * TicksPerSecond)
      chars_filled == (progress_width * percent_done) \div 100
  IN [message |-> "NEXT TEST", success |-> "None", countdown |-> TRUE,
      remaining |-> ((total * TicksPerSecond) - elapsed) \div TicksPerSecond,
      filled |-> chars_filled, blank |-> progress_width - chars_filled,
      percent |-> percent_done]

\* "while time.time() - wait_start < args.delay", the clock in readings
WaitingTicks == now - wait_start < delay * TicksPerSecond

\* one pass of the countdown loop with no key pressed: the footer for the
\* time elapsed, check_input, the sleep; d readings of the clock go by
CountdownPass(d) ==
  /\ pc = "cooldown"
  /\ WaitingTicks
  /\ check_input(key) = "None"
  /\ cmd' = "None"
  /\ footer' = CountdownMessage(now - wait_start, delay)
  /\ now' = now + d
  /\ UNCHANGED << procVars, histVars, pc, running, test_completed, iteration, wait_start,
                  all_success, envVars, server_windows, appended, header, term, key,
                  task, result >>

\* the countdown loop ends: next iteration
CountdownOver ==
  /\ pc = "cooldown"
  /\ ~WaitingTicks
  /\ running /\ delay > 0
  /\ iteration < MaxIter
  /\ iteration' = NextIteration(iteration)
  /\ test_completed' = FALSE
  /\ pc' = LoopTop(running)
  /\ UNCHANGED << procVars, histVars, cmd, running, wait_start, all_success, envVars, uiVars,
                  now, key, task, result >>

\* Runs with a delay of 1 to MaxCountdown seconds in which the user types
\* nothing and every remote call returns a complete response
InitCountdown == InitWith(Configs, 1..MaxCountdown) /\ env_set

NextCountdown ==
  \/ PollNone
  \/ Dispatch
  \/ \E i \in Idx : ProbeStart(i)
  \/ \E i \in Idx : ProbeRequest(i)
  \/ \E i \in Idx : ProbeReturnComplete(i)
  \/ Summary
  \/ AfterTestsDelay
  \/ \E d \in 1..MaxPassTicks : CountdownPass(d)
  \/ CountdownOver

SpecCountdown == InitCountdown /\ [][NextCountdown]_vars

\* ------------------------------------------------------------------ layout
\* The layout of CursesUI for lists of 1 to MaxServers endpoints on terminals
\* of several sizes: setup_windows as main_curses calls it at the start, on
\* a refresh, and (through handle_resize) on a resize.
EndpointNames ==
  << "s01", "s02", "s03", "s04", "s05", "s06", "s07", "s08", "s09", "s10", "s11", "s12",
     "s13", "s14", "s15", "s16" >>

ServerLists ==
  { [i \in 1..N |-> [shortname |-> EndpointNames[i], openai_model |-> "scout",
                     openai_api_key |-> "CELS",
                     openai_api_base |-> "http://66.55.67.65:80/v1"]] :
      N \in 1..(IF MaxServers < Len(EndpointNames) THEN MaxServers ELSE Len(EndpointNames)) }

\* terminal sizes (rows, columns)
LayoutSizes == {24, 31, 40} \X {80, 100, 121, 132}

\* the state after ui.setup_windows(servers) at the start of main_curses
InitLayout ==
  /\ servers \in ServerLists
  /\ config = ConfigOf(servers)
  /\ cels_only = FALSE
  /\ term \in LayoutSizes
  /\ server_windows = SetupWindows(term)
  /\ appended = [n \in Names |-> << >>]
  /\ header = 0
  /\ footer = Footer("Ready to start tests...", "None", FALSE)
  /\ delay = 0 /\ env_set = TRUE
  /\ iteration = 1 /\ running = TRUE /\ test_completed = FALSE
  /\ cmd = "None" /\ wait_start = 0 /\ all_success = FALSE /\ now = 0
  /\ faults = 0 /\ dispatches = 0
  /\ issued = [i \in Idx |-> 0]
  /\ stdout = << >> /\ exit_status = None
  /\ key = "none"
  /\ task = [i \in Idx |-> "none"]
  /\ result = [i \in Idx |-> FALSE]
  /\ pc = "poll"

\* a refresh request is handled: setup_windows at the size the terminal has
LayoutRefresh ==
  /\ pc = "poll"
  /\ cmd' = "refresh"
  /\ setup_windows(term)
  /\ UNCHANGED << procVars, histVars, pc, running, test_completed, iteration, wait_start,
                  all_success, envVars, now, key, task, result >>

\* a resize request is handled: handle_resize at the size the terminal has now
LayoutResize ==
  /\ pc = "poll"
  /\ cmd' = "resize"
  /\ \E t \in LayoutSizes : handle_resize(t)
  /\ UNCHANGED << procVars, histVars, pc, running, test_completed, iteration, wait_start,
                  all_success, envVars, now, key, task, result >>

NextLayout == LayoutRefresh \/ LayoutResize

SpecLayout == InitLayout /\ [][NextLayout]_vars

\* ------------------------------------------------------------- message log
\* update_server_window, the message rows: texts are sequences of
\* characters here, so that their length and their cut can be computed.
\* s[:n] of Python
Slice(s, n) ==
  IF n >= 0 THEN SubSeq(s, 1, IF n < Len(s) THEN n ELSE Len(s))
  ELSE SubSeq(s, 1, IF Len(s) + n > 0 THEN Len(s) + n ELSE 0)

Ellipsis == << ".", ".", "." >>

\* reversed(server_info['lines'])
Reversed(s) == [k \in 1..Len(s) |-> s[Len(s) - k + 1]]

\* the loop over enumerate(reversed(lines)) from index i on: one record per
\* row written (timestamp at column 1, message at column 10)
RECURSIVE MessageRows(_, _, _, _)
MessageRows(lines, i, max_y, max_x) ==
  IF i >= Len(lines) \/ 6 + i >= max_y - 1 THEN << >>
  ELSE LET line == lines[i + 1]
           max_msg_width == max_x - 11
           msg == IF Len(line.message) > max_msg_width
                    THEN Slice(line.message, max_msg_width - 3) \o Ellipsis
                  ELSE line.message
       IN << [y |-> 6 + i, timestamp |-> line.timestamp, msg |-> msg,
              is_error |-> line.is_error] >>
          \o MessageRows(lines, i + 1, max_y, max_x)

\* a window that lists the log in the order it was written
update_server_window_oldest_first(server_info) ==
  MessageRows(server_info.lines, 0, server_info.window.h, server_info.window.w)

\* the message rows update_server_window writes (max_y, max_x = win.getmaxyx())
update_server_window(server_info) ==
  MessageRows(Reversed(server_info.lines), 0, server_info.window.h, server_info.window.w)

\* terminal sizes that give one endpoint regions of height 5, 7, 8, 10 and
\* of width 12, 14, 16, 24
WindowSizes == {11, 13, 14, 16} \X {12, 14, 16, 24}
MessageLengths == {2, 5, 13}
Text(len) == [j \in 1..len |-> "m"]

InitWindow ==
  /\ servers \in {l \in ServerLists : Len(l) = 1}
  /\ config = ConfigOf(servers)
  /\ cels_only = FALSE
  /\ term \in WindowSizes
  /\ server_windows = SetupWindows(term)
  /\ appended = [n \in Names |-> << >>]
  /\ header = 0
  /\ footer = Footer("Ready to start tests...", "None", FALSE)
  /\ delay = 0 /\ env_set = TRUE
  /\ iteration = 1 /\ running = TRUE /\ test_completed = FALSE
  /\ cmd = "None" /\ wait_start = 0 /\ all_success = FALSE /\ now = 0
  /\ faults = 0 /\ dispatches = 0
  /\ issued = [i \in Idx |-> 0]
  /\ stdout = << >> /\ exit_status = None
  /\ key = "none"
  /\ task = [i \in Idx |-> "none"]
  /\ result = [i \in Idx |-> FALSE]
  /\ pc = "poll"

\* add_server_message(shortname, message, is_error) a second later; it ends
\* with update_server_window(shortname)
WindowMessage(n, len, is_error) ==
  /\ now < MaxWindowLog
  /\ now' = now + 1
  /\ server_windows' = [server_windows EXCEPT
                          ![n].lines = KeepLast(Append(@, [timestamp |-> now', message |-> Text(len),
                                                           is_error |-> is_error]))]
  /\ appended' = [appended EXCEPT ![n] = Append(@, [timestamp |-> now', message |-> Text(len),
                                                    is_error |-> is_error])]
  /\ UNCHANGED << procVars, histVars, mainVars, envVars, header, footer, term, key, task, result >>

\* handle_resize at a new terminal size
WindowResize ==
  /\ cmd' = "resize"
  /\ \E t \in WindowSizes : handle_resize(t)
  /\ UNCHANGED << procVars, histVars, pc, running, test_completed, iteration, wait_start,
                  all_success, envVars, now, key, task, result >>

NextWindow ==
  \/ \E n \in Names, len \in MessageLengths, is_error \in BOOLEAN : WindowMessage(n, len, is_error)
  \/ WindowResize

SpecWindow == InitWindow /\ [][NextWindow]_vars

\* ------------------------------------------------------------------ redraw
\* update_server_window: the rows of the window it writes to. Rows 0 to 3
\* (box and title, endpoint, model, status) are always written, row 4 when
\* start_time is set, row 5 when response_ok is set as well, the message
\* rows from 6 on as far as "y + i >= max_y - 1" lets them
WrittenRows(server_info) ==
  {0, 1, 2, 3}
  \cup (IF server_info.start_time # None THEN {4} ELSE {})
  \cup (IF server_info.start_time # None /\ server_info.response_ok THEN {5} ELSE {})
  \cup {6 + i : i \in {k \in 0..(Len(server_info.lines) - 1) : ~(6 + k >= server_info.window.h - 1)}}

\* the probe of one endpoint begins: update_server_status(shortname,
\* "Running") and the first message, each ending with update_server_window
RedrawBegin(n) ==
  /\ now < MaxRedraws
  /\ server_windows[n].status = "Waiting"
  /\ now' = now + 1
  /\ server_windows' = ApplyCalls(server_windows, n, ProbeBeginCalls)
  /\ appended' = [appended EXCEPT ![n] = @ \o Appended(ProbeBeginCalls)]
  /\ UNCHANGED << procVars, histVars, mainVars, envVars, header, footer, term, key, task, result >>

\* the remote call of a running probe has returned or raised: the calls on
\* the UI that follow
RedrawEnd(n, o) ==
  /\ now < MaxRedraws
  /\ server_windows[n].status = "Running"
  /\ now' = now + 1
  /\ server_windows' = ApplyCalls(server_windows, n, ProbeReturnCalls(o).calls)
  /\ appended' = [appended EXCEPT ![n] = @ \o Appended(ProbeReturnCalls(o).calls)]
  /\ UNCHANGED << procVars, histVars, mainVars, envVars, header, footer, term, key, task, result >>

NextRedraw ==
  \/ \E n \in Names : RedrawBegin(n)
  \/ \E n \in Names, o \in Outcomes : RedrawEnd(n, o)

SpecRedraw == InitLayout /\ [][NextRedraw]_vars

\* -------------------------------------------------------------------- main
\* main, curses mode: curses.wrapper(run_curses_app) runs main_curses.
\* A call on the display raises curses.error (at start-up or while drawing,
\* from main_curses or from a probe coroutine, whose exception gather passes
\* on): run_curses_app ends curses and re-raises, main prints the error and
\* the hint, and returns
CursesError ==
  /\ pc \in {"poll", "test", "await", "summary", "cooldown", "exit"}
  /\ stdout' = stdout \o
       << [who |-> "", text |-> "Curses error", n |-> None],
          [who |-> "", n |-> None,
           text |-> "Try running with --console flag if your terminal doesn't support curses"] >>
  /\ pc' = "exited"
  /\ exit_status' = 0
  /\ UNCHANGED << histVars, running, test_completed, iteration, cmd, wait_start,
                  all_success, envVars, uiVars, now, key, task, result >>

\* main_curses has returned: curses.wrapper returns, main returns
MainReturn ==
  /\ pc = "done"
  /\ pc' = "exited"
  /\ exit_status' = 0
  /\ UNCHANGED << stdout, histVars, running, test_completed, iteration, cmd, wait_start,
                  all_success, envVars, uiVars, now, key, task, result >>

NextMain == Next \/ CursesError \/ MainReturn

SpecMain == Init /\ [][NextMain]_vars

\* ----------------------------------------------------------------- loading
\* a start that goes on to the UI whatever is left
GoOnRegardless(list, only_cels) == FALSE

\* "if not servers and args.cels_only": warn and return
NoServersToTest(list, only_cels) == list = << >> /\ only_cels

\* main_curses from its first line to "Main testing loop": the descriptors
\* are loaded and filtered, the defaults taken if none is left, and the
\* windows set up; or main_curses returns (no servers with --cels-only), or
\* filter_servers raises on None and main prints the error
LoadServers ==
  /\ pc = "start"
  /\ UNCHANGED << faults, dispatches, running, test_completed, iteration, cmd, wait_start,
                  all_success, delay, env_set, config, cels_only, header, term, now, key >>
  /\ LET loaded == load_server_config(config)
         printed == IF loaded.printed
                      THEN << [who |-> "", text |-> "Error loading configuration", n |-> None] >>
                      ELSE << >>
         filtered == IF loaded.is_none THEN << >> ELSE filter_servers(loaded.value, cels_only)
         final == IF filtered = << >> THEN filter_servers(default_servers, cels_only)
                  ELSE filtered
     IN IF loaded.is_none /\ cels_only
          THEN /\ stdout' = stdout \o printed
                              \o << [who |-> "", text |-> "Error", n |-> None] >>
               /\ pc' = "exited" /\ exit_status' = 0
               /\ UNCHANGED << servers, server_windows, appended, task, result, issued, footer >>
        ELSE IF NoServersToTest(final, cels_only)
          THEN /\ stdout' = stdout \o printed
                    \o << [who |-> "", n |-> None,
                           text |-> "Warning: No non-OpenAI servers found and --cels-only specified."],
                          [who |-> "", text |-> "No servers to test. Exiting.", n |-> None] >>
               /\ pc' = "exited" /\ exit_status' = 0
               /\ UNCHANGED << servers, server_windows, appended, task, result, issued, footer >>
        ELSE /\ stdout' = stdout \o printed
             /\ servers' = final
             /\ server_windows' = SetupWindows(term)'
             /\ appended' = [n \in Names' |-> << >>]
             /\ footer' = Footer("Ready to start tests...", "None", FALSE)
             /\ task' = [i \in Idx' |-> "none"]
             /\ result' = [i \in Idx' |-> FALSE]
             /\ issued' = [i \in Idx' |-> 0]
             /\ pc' = "poll"
             /\ UNCHANGED exit_status

\* the process is started: nothing is loaded yet, there is no UI
InitStart ==
  /\ config \in Sources
  /\ cels_only \in BOOLEAN
  /\ env_set \in BOOLEAN
  /\ delay = 0
  /\ servers = << >>
  /\ term = InitialSize
  /\ server_windows = << >> /\ appended = << >>
  /\ header = 0 /\ footer = Footer("", "None", FALSE)
  /\ iteration = 1 /\ running = TRUE /\ test_completed = FALSE
  /\ cmd = "None" /\ wait_start = 0 /\ all_success = FALSE /\ now = 0
  /\ faults = 0 /\ dispatches = 0
  /\ issued = << >> /\ task = << >> /\ result = << >>
  /\ stdout = << >> /\ exit_status = None
  /\ key = "none"
  /\ pc = "start"

\* single-pass runs from the start of the process on, in which every remote
\* call returns a complete response
NextStart ==
  \/ LoadServers
  \/ \E k \in Keys : PressKey(k)
  \/ PollQuit
  \/ PollRefresh
  \/ PollResize
  \/ PollNone
  \/ Dispatch
  \/ SkipTests
  \/ \E i \in Idx : ProbeStart(i)
  \/ \E i \in Idx : ProbeRequest(i)
  \/ \E i \in Idx : ProbeReturnComplete(i)
  \/ Summary
  \/ AfterTestsNoDelay
  \/ Exit
  \/ MainReturn

SpecStart == InitStart /\ [][NextStart]_vars

\* ------------------------------------------------------------ console mode
\* One printed line: the endpoint tag in brackets (if any), the text, a number
Line(who, text, n) == [who |-> who, text |-> text, n |-> n]

\* positions of main_async: in the body of "if not servers:" and in the try
\* block after it, each at its loop top / single call, in the gather of
\* run_tests, and in the countdown
PcOf ==
  [fallback |-> [top |-> "fb_top", await |-> "fb_await", cooldown |-> "fb_cooldown"],
   try      |-> [top |-> "try_top", await |-> "try_await", cooldown |-> "try_cooldown"]]
Sites == {"fallback", "try"}

\* test_server up to test_openai_endpoint
ServerHeader(server) ==
  << Line(server.shortname, "SERVER", None), Line(server.shortname, "API Base", None) >>

\* test_server after test_openai_endpoint has returned success
ServerFooter(server, success) ==
  << Line(server.shortname, IF success THEN "Status: SUCCESS" ELSE "Status: FAILURE", None),
     Line("", "------------------------------------------------------------", None) >>

\* test_openai_endpoint from the credential lookup up to the remote call:
\* the lines printed and whether the coroutine goes on to the call
ConsoleRequestLines(server) ==
  LET api_key == server.openai_api_key
  IN IF api_key = "" /\ ~env_set
       THEN [lines |-> << Line("", "Error: OPENAI_API_KEY environment variable not set", None) >>,
             called |-> FALSE]
     ELSE IF api_key = "${OPENAI_API_KEY}" /\ ~env_set
       THEN [lines |-> << Line("", "Error: Environment variable not set", None) >>,
             called |-> FALSE]
     ELSE [lines |-> << >>, called |-> TRUE]

\* test_openai_endpoint from the return of the remote call on: the lines
\* printed and the value returned
ConsoleReturnLines(server, o) ==
  LET who == server.shortname
  IN IF o.raised = "AuthenticationError"
       THEN [lines |-> << Line(who, "Authentication error: Invalid API key", None) >>,
             value |-> FALSE]
     ELSE IF o.raised # "no"
       THEN [lines |-> << Line(who, Handler(o.raised).message, None) >>, value |-> FALSE]
     ELSE IF o.choices = 0
       THEN [lines |-> << Line(who, "Error: No valid response received", None) >>,
             value |-> FALSE]
     ELSE [lines |-> << Line(who, "Success: Endpoint responded", None),
                        Line(who, IF o.content # "" THEN "Response"
                                  ELSE "Response: EMPTY (model connected but returned no content)",
                             None) >>
                     \o (IF o.usage # "missing" THEN << Line(who, "Usage", None) >> ELSE << >>),
           value |-> TRUE]

\* variables of the curses mode, untouched by the console mode
cursesVars == << running, test_completed, cmd, key, term, server_windows, header, footer,
                 appended >>

\* "if not servers:" taken: the warning, the built-in defaults
ConsoleFallback ==
  /\ pc = "c_main"
  /\ servers = default_servers
  /\ stdout' = Append(stdout,
                  Line("", "Warning: No server configurations loaded from YAML. Using defaults.",
                       None))
  /\ pc' = PcOf["fallback"]["top"]
  /\ UNCHANGED << exit_status, histVars, iteration, wait_start, all_success, envVars, now,
                  task, result, cursesVars >>

\* "if not servers:" not taken: on to the try block
ConsoleLoaded ==
  /\ pc = "c_main"
  /\ servers # default_servers
  /\ pc' = PcOf["try"]["top"]
  /\ UNCHANGED << procVars, histVars, iteration, wait_start, all_success, envVars, now,
                  task, result, cursesVars >>

\* "if args.delay <= 0: await run_tests(servers)" or the top of "while
\* True:", at either site; run_tests prints its banner and creates one task
\* per server
ConsoleTop(site) ==
  /\ pc = PcOf[site]["top"]
  /\ stdout' = stdout
       \o (IF delay <= 0 THEN << >> ELSE << Line("", "Test Iteration #", iteration) >>)
       \o << Line("", "TESTING ALL MODEL SERVER ENDPOINTS", None),
             Line("", "Started at", None),
             Line("", "============================================================", None) >>
  /\ task' = [i \in Idx |-> "ready"]
  /\ result' = [i \in Idx |-> FALSE]
  /\ dispatches' = dispatches + 1
  /\ issued' = [i \in Idx |-> 0]
  /\ pc' = PcOf[site]["await"]
  /\ UNCHANGED << exit_status, faults, iteration, wait_start, all_success, envVars, now,
                  cursesVars >>

Awaiting == pc \in {PcOf[site]["await"] : site \in Sites}

\* the i-th test_server coroutine starts (in the order of the list) and runs
\* up to the remote call, or to its end when the credential does not resolve
ConsoleProbeStart(i) ==
  /\ Awaiting
  /\ task[i] = "ready"
  /\ \A j \in 1..(i - 1) : task[j] # "ready"
  /\ LET p == ConsoleRequestLines(servers[i])
     IN /\ stdout' = stdout \o ServerHeader(servers[i]) \o p.lines
                       \o (IF p.called THEN << >> ELSE ServerFooter(servers[i], FALSE))
        /\ task' = [task EXCEPT ![i] = IF p.called THEN "inflight" ELSE "returned"]
        /\ issued' = [issued EXCEPT ![i] = IF p.called THEN @ + 1 ELSE @]
  /\ UNCHANGED << exit_status, faults, dispatches, result, pc, iteration, wait_start,
                  all_success, envVars, now, cursesVars >>

\* the worker thread finishes the remote call of the i-th coroutine
ConsoleProbeReturn(i, o) ==
  /\ Awaiting
  /\ task[i] = "inflight"
  /\ Complete(o) \/ faults < MaxFaults
  /\ faults' = IF Complete(o) THEN faults ELSE faults + 1
  /\ LET p == ConsoleReturnLines(servers[i], o)
     IN /\ stdout' = stdout \o p.lines \o ServerFooter(servers[i], p.value)
        /\ task' = [task EXCEPT ![i] = Return(p.value)]
        /\ result' = [result EXCEPT ![i] = p.value]
  /\ UNCHANGED << exit_status, dispatches, issued, pc, iteration, wait_start, all_success,
                  envVars, now, cursesVars >>

\* run_tests returns to the single call of the body of "if not servers:":
\* main_async goes on to the try block
FallbackGatheredSingle ==
  /\ pc = PcOf["fallback"]["await"]
  /\ Gathered
  /\ delay <= 0
  /\ pc' = PcOf["try"]["top"]
  /\ UNCHANGED << procVars, histVars, iteration, wait_start, all_success, envVars, now,
                  task, result, cursesVars >>

\* run_tests returns to the single call of the try block: main_async
\* returns, asyncio.run returns, main returns
TryGatheredSingle ==
  /\ pc = PcOf["try"]["await"]
  /\ Gathered
  /\ delay <= 0
  /\ pc' = "exited"
  /\ exit_status' = 0
  /\ UNCHANGED << stdout, histVars, iteration, wait_start, all_success, envVars, now,
                  task, result, cursesVars >>

\* run_tests returns inside "while True:" at either site: the summary block,
\* the countdown begins
ConsoleGatheredLoop(site) ==
  /\ pc = PcOf[site]["await"]
  /\ Gathered
  /\ ~(delay <= 0)
  /\ all_success' = all(result)
  /\ stdout' = stdout
       \o << Line("", IF all_success' THEN "SUMMARY: All tests passed"
                                       ELSE "SUMMARY: Some tests failed", None),
             Line("", "Waiting seconds before next test run...", delay),
             Line("", "Press Ctrl+C to exit", None) >>
  /\ wait_start' = now
  /\ pc' = PcOf[site]["cooldown"]
  /\ UNCHANGED << exit_status, histVars, iteration, envVars, now, task, result, cursesVars >>

\* one pass of the countdown loop: sleep one second, print what remains
\* (delays under 10 seconds: "or remaining < 10" always holds)
ConsoleCountdown(site) ==
  /\ pc = PcOf[site]["cooldown"]
  /\ Waiting
  /\ now' = now + 1
  /\ stdout' = Append(stdout, Line("", "seconds remaining...", delay - (now' - wait_start)))
  /\ UNCHANGED << exit_status, histVars, pc, iteration, wait_start, all_success, envVars,
                  task, result, cursesVars >>

\* the countdown of the try block ends: "iteration += 1", next pass
TryCooldownEnd ==
  /\ pc = PcOf["try"]["cooldown"]
  /\ ~Waiting
  /\ iteration < MaxIter
  /\ iteration' = NextIteration(iteration)
  /\ pc' = PcOf["try"]["top"]
  /\ UNCHANGED << procVars, histVars, wait_start, all_success, envVars, now, task, result,
                  cursesVars >>

\* the countdown of the body of "if not servers:" ends: next pass, the
\* iteration number is left as it is (at most MaxIter passes are followed)
FallbackCooldownEnd ==
  /\ pc = PcOf["fallback"]["cooldown"]
  /\ ~Waiting
  /\ dispatches < MaxIter
  /\ pc' = PcOf["fallback"]["top"]
  /\ UNCHANGED << procVars, histVars, iteration, wait_start, all_success, envVars, now,
                  task, result, cursesVars >>

\* Ctrl+C while main_async is suspended: the message, main returns
ConsoleInterrupt ==
  /\ pc \in {PcOf[site][stage] : site \in Sites, stage \in {"await", "cooldown"}}
  /\ stdout' = Append(stdout, Line("", "Test loop interrupted by user. Exiting...", None))
  /\ pc' = "exited"
  /\ exit_status' = 0
  /\ UNCHANGED << histVars, iteration, wait_start, all_success, envVars, now, task, result,
                  cursesVars >>

\* main_async after load_server_config and filter_servers: the list of the
\* config file, or none (then the built-in defaults are taken)
InitConsole ==
  /\ servers \in Configs \cup {default_servers}
  /\ config = ConfigOf(servers)
  /\ cels_only = FALSE
  /\ delay \in {0, MaxDelay}
  /\ env_set \in BOOLEAN
  /\ pc = "c_main"
  /\ iteration = 1
  /\ wait_start = 0
  /\ all_success = FALSE
  /\ now = 0
  /\ task = [i \in Idx |-> "none"]
  /\ result = [i \in Idx |-> FALSE]
  /\ faults = 0
  /\ dispatches = 0
  /\ issued = [i \in Idx |-> 0]
  /\ stdout = << >>
  /\ exit_status = None
  /\ running = TRUE /\ test_completed = FALSE /\ cmd = "None" /\ key = "none"
  /\ term = InitialSize /\ server_windows = << >> /\ appended = << >>
  /\ header = 0 /\ footer = Footer("", "None", FALSE)

NextConsole ==
  \/ ConsoleFallback
  \/ ConsoleLoaded
  \/ \E site \in Sites : ConsoleTop(site)
  \/ \E i \in Idx : ConsoleProbeStart(i)
  \/ \E i \in Idx, o \in Outcomes : ConsoleProbeReturn(i, o)
  \/ FallbackGatheredSingle
  \/ TryGatheredSingle
  \/ \E site \in Sites : ConsoleGatheredLoop(site)
  \/ \E site \in Sites : ConsoleCountdown(site)
  \/ TryCooldownEnd
  \/ FallbackCooldownEnd
  \/ ConsoleInterrupt

SpecConsole == InitConsole /\ [][NextConsole]_vars

\* ------------------------------------------------------------------ claims
Status_(n) == server_windows[n].status
Terminal == {"Success", "Failed"}
InFlight == pc = "await" /\ \E i \in Idx : task[i] = "inflight"

\* C1: a quit request issued while probes are in flight moves the
\* orchestrator to Terminated within one input-poll tick, whether or not any
\* probe has completed: whenever a quit is pending with a remote call in
\* flight, the step that reads it and ends the loop can be taken.
QuitTerminates == Next /\ key' = "none" /\ cmd' = "quit" /\ pc' \in {"exit", "done"}
C1_QuitMidFlight == (InFlight /\ key = "q") => ENABLED QuitTerminates

\* the status changes the claim C2 lists
Listed == { <<"Waiting", "Running">>, <<"Running", "Success">>, <<"Running", "Failed">>,
            <<"Success", "Running">>, <<"Failed", "Running">> }
\* the reset of setup_windows
Reset == { <<"Success", "Waiting">>, <<"Failed", "Waiting">> }

\* C2 (as stated): the status of an endpoint changes only along
\* Waiting -> Running, Running -> Success, Running -> Failed and, at a new
\* iteration, Success/Failed -> Running.
C2_OnlyListedTransitions ==
  [][\A n \in Names : Status_(n)' # Status_(n) => <<Status_(n), Status_(n)'>> \in Listed]_vars

\* C2 (amended): the status changes only along the listed transitions or,
\* by setup_windows on a refresh or resize request, from Success/Failed back
\* to Waiting; Success/Failed go back to Running only by the start of a
\* probe of a new iteration; a terminal status is only ever written over
\* Running, credential failures included.
C2_Transitions ==
  [][\A n \in Names : Status_(n)' # Status_(n) =>
       /\ <<Status_(n), Status_(n)'>> \in Listed \cup Reset
       /\ <<Status_(n), Status_(n)'>> \in Reset => cmd' \in {"refresh", "resize"} /\ key # key'
       /\ Status_(n)' = "Running" =>
            \E i \in Idx : servers[i].shortname = n /\ task[i] = "ready" /\ task'[i] = "started"
       /\ Status_(n)' \in Terminal => Status_(n) = "Running"]_vars

\* second iteration: one endpoint went from a terminal status straight back
\* to Running (its end_time is of the first attempt) and is in flight, while
\* another has failed on its credential
C2_Witness ==
  /\ iteration = 2
  /\ \E i, j \in Idx :
       /\ task[i] = "inflight"
       /\ server_windows[servers[i].shortname].status = "Running"
       /\ server_windows[servers[i].shortname].end_time # None
       /\ task[j] = "returned"
       /\ server_windows[servers[j].shortname].status = "Failed"

\* C3: once an endpoint's status has reached Success or Failed, Running does
\* not appear again unless the status was Waiting in between.
C3_NoRunningAfterTerminal ==
  [][\A n \in Names : Status_(n) \in Terminal => Status_(n)' # "Running"]_vars

\* C4: every message log has at most 20 entries, and it is the last 20 (or
\* all, if fewer) of the entries appended since the log was created, in the
\* order they were appended.
Last(seq, k) == SubSeq(seq, Len(seq) - k + 1, Len(seq))
C4_LogIsLast20 ==
  \A n \in Names :
    /\ Len(server_windows[n].lines) <= 20
    /\ server_windows[n].lines =
         Last(appended[n], IF Len(appended[n]) > 20 THEN 20 ELSE Len(appended[n]))

\* more than 20 entries were appended to a log without a refresh or resize
C4_Witness == \E n \in Names : Len(appended[n]) > 20 /\ Len(server_windows[n].lines) = 20

\* C5: the orchestrator is in the post-probe phase of an iteration (summary
\* footer, then Cooldown or idle polling) only when every probe of the
\* iteration has returned, and when it enters that phase every endpoint's
\* status is Success or Failed.
C5_FanIn ==
  /\ pc = "summary" =>
       /\ \A i \in Idx : task[i] = "returned"
       /\ \A n \in Names : Status_(n) \in Terminal
       /\ footer.message \in {"All tests completed successfully!", "Some tests failed."}
  /\ test_completed => \A i \in Idx : task[i] = "returned"
  /\ pc = "cooldown" => \A i \in Idx : task[i] = "returned"

\* the summary of an iteration in which one probe succeeded and one failed
C5_Witness ==
  /\ pc = "summary"
  /\ \E n, m \in Names : Status_(n) = "Success" /\ Status_(m) = "Failed"

\* C6: the iteration counter starts at 1 and changes only by the step that
\* ends a Cooldown which has run its full length with no quit read, and then
\* by exactly 1; reading a refresh, a resize or a quit never changes it.
C6_IterationCounter ==
  /\ iteration = 1
  /\ [][/\ iteration' # iteration =>
             /\ iteration' = iteration + 1
             /\ pc = "cooldown" /\ now - wait_start >= delay /\ running /\ running'
             /\ key' = key
        /\ (key' # key /\ key # "none") => iteration' = iteration]_vars

\* the second iteration has begun after a refresh was handled in the Cooldown
C6_Witness == iteration = 2 /\ pc = "poll" /\ cmd = "refresh"

\* C7: with delay = 0 the probes are dispatched exactly once in the whole
\* run: never a second time, whatever refresh or resize is handled after the
\* run, and the loop is not left before the run; after the run the loop only
\* polls, and it is left only after a quit was read.
C7_SinglePass ==
  [][delay = 0 =>
       /\ dispatches' <= 1
       /\ test_completed' => dispatches' = 1 /\ pc' # "await"
       /\ (test_completed /\ running') => pc' \in {"poll", "test"}
       /\ pc' \in {"exit", "done"} => ~running' /\ dispatches' = 1
       /\ iteration' = 1 /\ pc' # "cooldown"]_vars

\* the single run is over, a refresh has been handled since, polling goes on
C7_Witness ==
  /\ delay = 0 /\ test_completed /\ running /\ pc = "poll" /\ cmd = "refresh"
  /\ \A i \in Idx : task[i] = "returned"

\* C8: a refresh request recomputes the layout at the current size and
\* redraws, starts no probe and issues no remote call, and changes neither
\* the iteration counter nor the start of the Cooldown nor whether a run is
\* due.
C8_RefreshFrame ==
  [][(PollRefresh \/ CooldownRefresh) =>
       /\ server_windows' = SetupWindows(term) /\ term' = term
       /\ UNCHANGED << task, result, faults, dispatches, iteration, wait_start,
                       test_completed, running >>
       /\ pc = "cooldown" => pc' = "cooldown"]_vars

\* a refresh was handled in the middle of the Cooldown
C8_Witness ==
  /\ pc = "cooldown" /\ cmd = "refresh" /\ now - wait_start > 0 /\ now - wait_start < delay
  /\ \A n \in Names : Status_(n) = "Waiting"

\* C9: a resize request recomputes the layout and redraws, leaving every
\* endpoint's status, start/end times, token count and message log
\* unchanged.
EndpointData(n) ==
  << server_windows[n].status, server_windows[n].start_time, server_windows[n].end_time,
     server_windows[n].tokens, server_windows[n].lines >>
C9_ResizeKeepsState ==
  [][(PollResize \/ CooldownResize) => \A n \in Names : EndpointData(n)' = EndpointData(n)]_vars

\* C10: when the remote call of an endpoint raises, that endpoint ends the
\* attempt Failed with an error entry last in its own log, its probe returns
\* False, no other endpoint's state changes, and the orchestrator is left
\* in the fan-in (from where it goes on to the summary and the Cooldown).
Raising == {o \in Outcomes : o.raised # "no"}
C10_ErrorContained ==
  [][\A i \in Idx : (\E o \in Raising : ProbeReturn(i, o)) =>
       LET n == servers[i].shortname
           l == server_windows'[n].lines
       IN /\ server_windows'[n].status = "Failed"
          /\ Len(appended'[n]) = Len(appended[n]) + 1
          /\ l # << >> /\ l[Len(l)].is_error /\ l[Len(l)] = appended'[n][Len(appended'[n])]
          /\ task'[i] = "returned" /\ ~result'[i]
          /\ \A m \in Names \ {n} : server_windows'[m] = server_windows[m]
          /\ pc' = "await" /\ running' = running /\ all_success' = all_success]_vars

\* the Cooldown after an iteration in which a remote call raised: that
\* endpoint is Failed, the other succeeded
C10_Witness ==
  /\ pc = "cooldown" /\ faults = 1 /\ ~all_success
  /\ \E i, j \in Idx :
       /\ server_windows[servers[i].shortname].status = "Failed"
       /\ LET l == server_windows[servers[i].shortname].lines
          IN l # << >> /\ l[Len(l)].message = "Rate limit exceeded"
       /\ server_windows[servers[j].shortname].status = "Success"

\* the message under which the claim C11 has each raised class reported
OwnMessage(e) ==
  CASE e = "AuthenticationError" -> "Authentication error: Invalid API key"
    [] e = "RateLimitError" -> "Rate limit exceeded"
    [] e = "APIConnectionError" -> "Connection error"
    [] e = "APITimeoutError" -> "Timeout error"
    [] e = "APIError" -> "OpenAI API Error"
    [] OTHER -> "Unexpected error"

\* C11: a remote call that raises has exactly one classification message
\* appended to its endpoint's log, and it is the message of the raised
\* error's own class: authentication, rate limit, connection, timeout (not
\* connection), other API error, anything else.
C11_OwnClass ==
  [][\A i \in Idx : \A o \in Raising : ProbeReturn(i, o) =>
       LET n == servers[i].shortname
       IN /\ Len(appended'[n]) = Len(appended[n]) + 1
          /\ appended'[n][Len(appended'[n])].message = OwnMessage(o.raised)
          /\ appended'[n][Len(appended'[n])].is_error]_vars

\* C12: when run_tests_curses returns, its all-succeeded flag is true iff
\* every endpoint's status is Success, and the footer shows the matching
\* summary; every endpoint's status is Success iff its probe met no failure.
C12_AllSucceeded ==
  pc = "summary" =>
    /\ all_success <=> \A n \in Names : Status_(n) = "Success"
    /\ \A i \in Idx : result[i] <=> Status_(servers[i].shortname) = "Success"
    /\ footer.message = IF all_success THEN "All tests completed successfully!"
                                       ELSE "Some tests failed."
    /\ footer.success = IF all_success THEN "True" ELSE "False"

LastMessage(n) == appended[n][Len(appended[n])].message

\* three endpoints: the first succeeded, the second's call raised
\* AuthenticationError, the third's APITimeoutError; the flag is false and
\* the footer shows the failure summary
C12_Witness ==
  /\ pc = "summary" /\ NumServers = 3
  /\ << Status_(servers[1].shortname), Status_(servers[2].shortname),
        Status_(servers[3].shortname) >> = << "Success", "Failed", "Failed" >>
  /\ LastMessage(servers[2].shortname) = "Authentication error: Invalid API key"
  /\ LastMessage(servers[3].shortname) = Handler("APITimeoutError").message
  /\ ~all_success /\ footer.message = "Some tests failed."

\* responses with a choice whose content is empty
EmptyContent == {o \in Outcomes : o.raised = "no" /\ o.choices = 1 /\ o.content = ""}

\* C13: a response with at least one choice and empty content ends the
\* attempt with status Success and return value True, with response_ok
\* false and a warning entry flagged is_error appended to the endpoint's log.
C13_EmptyIsSuccess ==
  [][\A i \in Idx : \A o \in EmptyContent : ProbeReturn(i, o) =>
       LET n == servers[i].shortname
       IN /\ server_windows'[n].status = "Success"
          /\ result'[i]
          /\ ~server_windows'[n].response_ok
          /\ \E k \in (Len(appended[n]) + 1)..Len(appended'[n]) :
               /\ appended'[n][k].is_error
               /\ appended'[n][k].message =
                    "Response: EMPTY (model connected but returned no content)"]_vars

\* the credential of a descriptor resolves: it is a literal, or the
\* environment variable it refers to (OPENAI_API_KEY when none is given) is set
Resolves(server) == server.openai_api_key \notin {"", "${OPENAI_API_KEY}"} \/ env_set

\* C14: the probe of an endpoint whose credential does not resolve ends
\* Failed with an error entry and return value False without its remote
\* call ever being issued; the step touches no other endpoint's state or
\* probe, and a probe of the same iteration that is in flight can still
\* return with its own outcome.
C14_CredentialFailure ==
  /\ [](\A i, j \in Idx :
          (pc = "await" /\ task[i] = "returned" /\ ~Resolves(servers[i]) /\ task[j] = "inflight")
            => ENABLED (ProbeReturnComplete(j)))
  /\ [][\A i \in Idx : ~Resolves(servers[i]) =>
          /\ task'[i] # "inflight"
          /\ ProbeRequest(i) =>
               LET n == servers[i].shortname
               IN /\ server_windows'[n].status = "Failed"
                  /\ Len(appended'[n]) = Len(appended[n]) + 1
                  /\ appended'[n][Len(appended'[n])].is_error
                  /\ task'[i] = "returned" /\ ~result'[i]
                  /\ faults' = faults
                  /\ \A j \in Idx \ {i} : task'[j] = task[j] /\ result'[j] = result[j]
                  /\ \A m \in Names \ {n} : server_windows'[m] = server_windows[m]]_vars

\* the summary of an iteration in which one endpoint failed on its
\* credential (no response was ever received) and another succeeded
C14_Witness ==
  /\ pc = "summary"
  /\ \E i, j \in Idx :
       /\ ~Resolves(servers[i])
       /\ Status_(servers[i].shortname) = "Failed"
       /\ server_windows[servers[i].shortname].response_time = None
       /\ appended[servers[i].shortname][Len(appended[servers[i].shortname])].is_error
       /\ Resolves(servers[j]) /\ Status_(servers[j].shortname) = "Success" /\ result[j]

\* C15: between two dispatches the remote call of an endpoint is issued at
\* most once: not at all before its probe has resolved the credential, once
\* while the call is in flight, and when the probe has returned exactly
\* once if the credential resolves and never otherwise; the count starts
\* anew only by the dispatch of the next iteration, so a failed attempt is
\* not retried.
C15_OneCallPerIteration ==
  /\ [](\A i \in Idx :
          /\ issued[i] <= 1
          /\ task[i] \in {"none", "ready", "started"} => issued[i] = 0
          /\ task[i] = "inflight" => issued[i] = 1
          /\ task[i] = "returned" => issued[i] = IF Resolves(servers[i]) THEN 1 ELSE 0)
  /\ [][(\E i \in Idx : issued'[i] < issued[i]) => dispatches' = dispatches + 1]_vars

\* the summary of the second iteration: an endpoint's call has raised and
\* the endpoint is Failed, one call was issued for it in this iteration
C15_Witness ==
  /\ pc = "summary" /\ dispatches = 2 /\ faults = 1
  /\ \E i \in Idx :
       /\ Status_(servers[i].shortname) = "Failed" /\ ~result[i]
       /\ Resolves(servers[i]) /\ issued[i] = 1
       /\ server_windows[servers[i].shortname].response_time = None

\* how many lines with this text the console transcript has for an endpoint
Printed(who, texts) ==
  Cardinality({k \in 1..Len(stdout) : stdout[k].who = who /\ stdout[k].text \in texts})
Interrupted ==
  stdout # << >> /\ stdout[Len(stdout)].text = "Test loop interrupted by user. Exiting..."

\* C16: a console run with delay = 0 that ends by itself has made exactly
\* one pass: run_tests was called once, one remote call at most was issued
\* per endpoint, and the transcript has exactly one block per endpoint (one
\* header, one status line), with the list of the config file and with the
\* built-in defaults.
C16_ConsoleSinglePass ==
  (pc = "exited" /\ delay = 0 /\ ~Interrupted) =>
    /\ dispatches = 1
    /\ \A i \in Idx :
         /\ Printed(servers[i].shortname, {"SERVER"}) = 1
         /\ Printed(servers[i].shortname, {"Status: SUCCESS", "Status: FAILURE"}) = 1

HintPrinted ==
  \E k \in 1..Len(stdout) :
    stdout[k].text = "Try running with --console flag if your terminal doesn't support curses"

\* C17: a process that ended after a curses error has printed the hint at
\* the --console fallback and has a non-zero exit status; a process that
\* ended after a normal quit has exit status 0.
C17_ExitStatus ==
  exit_status # None =>
    /\ (\E k \in 1..Len(stdout) : stdout[k].text = "Curses error")
         => HintPrinted /\ exit_status # 0
    /\ (stdout = << >> /\ ~running) => exit_status = 0

\* ceil(n / 3): the least r with 3 r >= n
Ceil3(n) == CHOOSE r \in 0..n : 3 * r >= n /\ 3 * (r - 1) < n

\* the grid (rows, columns) the claim C18 gives for n endpoints
ClaimedGrid(n) ==
  IF n <= 2 THEN << 1, n >>
  ELSE IF n <= 4 THEN << 2, 2 >>
  ELSE IF n <= 6 THEN << 2, 3 >>
  ELSE IF n <= 9 THEN << 3, 3 >>
  ELSE << Ceil3(n), 3 >>

\* the regions setup_windows has stored
Regions == [n \in Names |-> server_windows[n].window]
RegionOf(i) == server_windows[servers[i].shortname].window

\* C18: for N endpoints setup_windows lays the regions out in the grid
\* N<=2 -> (1, N); N<=4 -> (2, 2); N<=6 -> (2, 3); N<=9 -> (3, 3); otherwise
\* (ceil(N/3), 3): these are the rows and columns it computes, and the
\* stored regions have that many distinct top edges and left edges.
C18_GridRule ==
  /\ << GridRows(NumServers), GridCols(NumServers) >> = ClaimedGrid(NumServers)
  /\ Cardinality({RegionOf(i).y : i \in Idx}) = ClaimedGrid(NumServers)[1]
  /\ Cardinality({RegionOf(i).x : i \in Idx}) = ClaimedGrid(NumServers)[2]

\* eleven endpoints after a resize to 40 x 121: four rows of three columns
C18_Witness ==
  /\ NumServers = 11 /\ term = << 40, 121 >> /\ cmd = "resize"
  /\ {RegionOf(i).y : i \in Idx} = {3, 11, 19, 27}
  /\ {RegionOf(i).x : i \in Idx} = {0, 40, 80}

\* how many endpoints lie in row r (from 0) of the stored layout
Fill(r) ==
  Cardinality({i \in Idx : RegionOf(i).y = header_height + (r * RegionOf(i).h)})

\* C19: the grid has room for every endpoint (rows * cols >= N), the
\* endpoint of index i (from 0) lies in row i div cols, which is below the
\* number of rows, no row of the grid is empty and at most one row has
\* fewer endpoints than columns.
C19_GridHoldsAll ==
  LET rows == GridRows(NumServers)
      cols == GridCols(NumServers)
  IN /\ rows * cols >= NumServers
     /\ \A i \in Idx :
          /\ (i - 1) \div cols < rows
          /\ RegionOf(i).y = header_height + (((i - 1) \div cols) * RegionOf(i).h)
     /\ \A r \in 0..(rows - 1) : Fill(r) >= 1 /\ Fill(r) <= cols
     /\ Cardinality({r \in 0..(rows - 1) : Fill(r) < cols}) <= 1

\* eleven endpoints, refreshed: rows of 3, 3, 3 and 2 endpoints
C19_Witness ==
  /\ NumServers = 11 /\ cmd = "refresh"
  /\ << Fill(0), Fill(1), Fill(2), Fill(3) >> = << 3, 3, 3, 2 >>

\* C20: on a terminal of H rows and W columns every stored region has
\* height floor((H - 6) / rows) and width floor(W / cols), and the region
\* of index i (from 0) has its top-left corner at y = 3 + (i div cols) *
\* height, x = (i mod cols) * width; setting the windows up again for the
\* same size and endpoint list leaves every region as it was.
C20_RegionBounds ==
  /\ [](LET rows == ClaimedGrid(NumServers)[1]
            cols == ClaimedGrid(NumServers)[2]
            height == (term[1] - 6) \div rows
            width == term[2] \div cols
        IN \A i \in Idx :
             RegionOf(i) = [h |-> height, w |-> width,
                            y |-> 3 + (((i - 1) \div cols) * height),
                            x |-> ((i - 1) % cols) * width])
  /\ [][(term' = term /\ servers' = servers) => Regions' = Regions]_vars

\* seven endpoints on 31 x 100, set up again after a refresh: regions of 8
\* rows by 33 columns, the seventh alone in the third row
C20_Witness ==
  /\ NumServers = 7 /\ term = << 31, 100 >> /\ cmd = "refresh"
  /\ RegionOf(7) = [h |-> 8, w |-> 33, y |-> 19, x |-> 0]
  /\ RegionOf(6) = [h |-> 8, w |-> 33, y |-> 11, x |-> 66]

\* floor(a / b) for a >= 0, b > 0: the q with q b <= a < (q + 1) b
FloorDiv(a, b) == CHOOSE q \in 0..a : q * b <= a /\ a < (q + 1) * b

IsCountdown(f) == "percent" \in DOMAIN f

Unusable(source) == source.kind # "servers" \/ source.servers = << >>
\* every descriptor the source gives is on the public default host
OnlyPublicHost(source) ==
  \A k \in 1..Len(source.servers) :
    source.servers[k].openai_api_base = "https://api.openai.com/v1"
Probed(i) == task[i] \notin {"none", "ready"}

\* C22: once main_curses has dealt with the descriptor source: if the
\* source gave no descriptor and --cels-only is not set, the run goes on
\* with exactly the three built-in defaults, probed in their order, each
\* once all have returned; with --cels-only no endpoint of the run is on
\* the public default host; and if --cels-only leaves no endpoint the
\* process has ended without dispatching a probe.
C22_Fallback ==
  pc # "start" =>
    /\ (Unusable(config) /\ ~cels_only) =>
         /\ servers = default_servers /\ Len(servers) = 3
         /\ DOMAIN server_windows = {"gpt41", "o3", "o4mini"}
         /\ \A i, j \in Idx : (i < j /\ Probed(j)) => Probed(i)
         /\ pc \in {"summary", "exit", "done", "exited"} =>
              dispatches = 1 /\ \A i \in Idx : task[i] = "returned"
    /\ cels_only =>
         /\ \A i \in Idx : servers[i].openai_api_base # "https://api.openai.com/v1"
         /\ \A n \in DOMAIN appended :
              \E k \in 1..Len(config.servers) :
                /\ config.servers[k].shortname = n
                /\ config.servers[k].openai_api_base # "https://api.openai.com/v1"
    /\ (cels_only /\ OnlyPublicHost(config)) =>
         pc = "exited" /\ dispatches = 0 /\ servers = << >> /\ exit_status = 0

\* the source was not valid YAML: the three defaults have been probed
C22_Witness ==
  /\ config.kind = "malformed" /\ ~cels_only /\ pc = "summary"
  /\ \A n \in {"gpt41", "o3", "o4mini"} : appended[n] # << >>
  /\ stdout # << >>

UniqueShortnames == \A i, j \in Idx : servers[i].shortname = servers[j].shortname => i = j

\* a step of the probe of endpoint i: its task moves on while the gather is awaited
ProbeStepOf(i) == pc = "await" /\ pc' = "await" /\ task'[i] # task[i]

\* C23: with unique shortnames, a step of the probe of endpoint i (begin,
\* request or return, in any interleaving with the other probes) changes
\* the task of no other probe and leaves every field of every other
\* endpoint's state (status, times, tokens, response_ok, log) as it was;
\* what it appends goes to the log of endpoint i only.
C23_LocalWrites ==
  [][ \A i \in Idx :
        (UniqueShortnames /\ ProbeStepOf(i)) =>
          /\ \A j \in Idx \ {i} : task'[j] = task[j]
          /\ \A n \in Names \ {servers[i].shortname} :
               /\ server_windows'[n] = server_windows[n]
               /\ appended'[n] = appended[n]
          /\ server_windows'[servers[i].shortname] # server_windows[servers[i].shortname] ]_vars

\* the second probe has returned while the first is still in flight, and
\* the first endpoint's state still is that of a running probe
C23_Witness ==
  /\ UniqueShortnames /\ pc = "await"
  /\ task[1] = "inflight" /\ task[2] = "returned"
  /\ server_windows[servers[1].shortname].status = "Running"
  /\ server_windows[servers[1].shortname].end_time = None
  /\ server_windows[servers[2].shortname].status \in {"Success", "Failed"}
  /\ Len(server_windows[servers[2].shortname].lines) > Len(server_windows[servers[1].shortname].lines)

\* probes whose coroutine is running on the scheduler thread, and probes
\* whose remote call is on a worker thread
MidRun == {i \in Idx : task[i] = "started"}
OnWorker == {i \in Idx : task[i] = "inflight"}
DisplayWritten ==
  server_windows' # server_windows \/ header' # header \/ footer' # footer

\* C24: at most one coroutine is ever between two suspension points; a
\* step that changes UI state (endpoint records, header, footer) while
\* probes are pending is the step of exactly one probe coroutine, and of
\* the one that is mid-run if there is one; the main coroutine writes only
\* when no probe coroutine is mid-run and no remote call is on a worker
\* thread; and as long as the remote call of an endpoint stays on its
\* worker thread, the record of that endpoint is not written.
C24_Serialized ==
  /\ [](Cardinality(MidRun) <= 1)
  /\ [][ /\ DisplayWritten =>
              IF pc = "await" /\ \E i \in Idx : task[i] # "returned"
                THEN /\ pc' = "await" /\ header' = header /\ footer' = footer
                     /\ \E i \in Idx :
                          /\ task'[i] # task[i]
                          /\ \A j \in Idx \ {i} : task'[j] = task[j]
                          /\ MidRun # {} => MidRun = {i}
                ELSE MidRun = {} /\ OnWorker = {}
         /\ \A i \in OnWorker \cap OnWorker' :
              server_windows'[servers[i].shortname] = server_windows[servers[i].shortname] ]_vars

\* one remote call is on a worker thread while the coroutine of the other
\* probe is running and has written its endpoint's record
C24_Witness ==
  /\ pc = "await" /\ OnWorker = {1} /\ MidRun = {2}
  /\ server_windows[servers[2].shortname].status = "Running"
  /\ server_windows[servers[1].shortname].status = "Running"

Least(a, b) == IF a < b THEN a ELSE b
Most(a, b) == IF a > b THEN a ELSE b

\* C25: for every endpoint, the message rows update_server_window writes
\* are rows 6, 7, ... of the region, the k-th of them showing the k-th
\* newest log entry; their number is min(len(log), max(0, height - 7));
\* none is at or below the bottom border row (height - 1); and in a region
\* of width w >= 14 each text drawn is at most w - 11 long: a message that
\* fits is drawn whole, a longer one as its first w - 14 characters
\* followed by "...".
C25_MessageRows ==
  \A n \in Names :
    LET info == server_windows[n]
        log == info.lines
        h == info.window.h
        w == info.window.w
        drawn == update_server_window(info)
    IN /\ Len(drawn) = Least(Len(log), Most(0, h - 7))
       /\ \A k \in 1..Len(drawn) :
            LET entry == log[Len(log) - k + 1]
            IN /\ drawn[k].y = 6 + (k - 1)
               /\ drawn[k].y < h - 1
               /\ drawn[k].timestamp = entry.timestamp
               /\ w >= 14 =>
                    /\ Len(drawn[k].msg) <= w - 11
                    /\ drawn[k].msg =
                         IF Len(entry.message) <= w - 11 THEN entry.message
                         ELSE SubSeq(entry.message, 1, w - 14) \o << ".", ".", "." >>

\* a log of four entries in a region of height 10 and width 16: three are
\* drawn, the newest first, one of them cut to two characters and "..."
C25_Witness ==
  \E n \in Names :
    LET info == server_windows[n]
        drawn == update_server_window(info)
    IN /\ info.window.h = 10 /\ info.window.w = 16
       /\ Len(info.lines) = 4 /\ Len(drawn) = 3
       /\ Len(info.lines[4].message) = 13
       /\ drawn[1].msg = << "m", "m", ".", ".", "." >>
       /\ Len(info.lines[3].message) = 5 /\ drawn[2].msg = info.lines[3].message
       /\ drawn[1].timestamp > drawn[2].timestamp

\* C26: while an endpoint is Running no end_time is recorded for it (the
\* elapsed duration appears only once the current attempt has ended), and
\* every transition into Running sets start_time to the time of that
\* transition, so that the duration shown is that of the current attempt.
C26_FreshTiming ==
  /\ [](\A n \in Names : Status_(n) = "Running" => server_windows[n].end_time = None)
  /\ [][\A n \in Names :
          (Status_(n) # "Running" /\ Status_(n)' = "Running") =>
            server_windows'[n].start_time = now']_vars

\* C27: the header shows iteration 0 (no label) as long as no iteration has
\* been dispatched, and from the first dispatch on, while probes run, in
\* the summary and throughout the Cooldown (refresh and resize requests
\* included), the number in the header is the iteration counter.
C27_HeaderIteration ==
  /\ dispatches = 0 => header = 0
  /\ (dispatches >= 1 /\ pc \in {"await", "summary", "cooldown"}) => header = iteration
  /\ dispatches >= 1 => header # 0

\* the step of the countdown loop that reads a quit request
QuitReadInCooldown == pc = "cooldown" /\ check_input(key) = "quit" /\ key' = "none"

\* C28: the step that reads a quit request during the Cooldown leaves the
\* Cooldown at once (the clock has not moved and the delay has not run
\* out), with the iteration counter and the number of dispatches as they
\* were; from there the loop only goes on to the exit message, with no
\* further dispatch and no increment.
C28_CooldownQuit ==
  [][ /\ QuitReadInCooldown =>
           /\ now - wait_start < delay /\ now' = now
           /\ pc' = "exit" /\ ~running'
           /\ iteration' = iteration /\ dispatches' = dispatches
      /\ pc \in {"exit", "done"} =>
           /\ pc' \in {"exit", "done"}
           /\ iteration' = iteration /\ dispatches' = dispatches
           /\ task' = task /\ server_windows' = server_windows
           /\ (pc = "exit" /\ pc' = "done") => footer'.message = "Exiting test runner..." ]_vars

\* the run has ended on a quit read before the first Cooldown was over
C28_Witness ==
  /\ pc = "done" /\ cmd = "quit" /\ ~running
  /\ delay > 0 /\ test_completed /\ now - wait_start < delay
  /\ iteration = 1 /\ dispatches = 1
  /\ footer.message = "Exiting test runner..."

\* C29: once a quit request has been read by the loop of main_curses
\* (running is False), run_tests_curses is not called and no Cooldown is
\* entered: no probe is dispatched, and the loop is on its way to the exit
\* message.
C29_QuitStopsLoop ==
  [][ ~running =>
        /\ dispatches' = dispatches
        /\ pc' # pc => pc' \in {"exit", "done"} ]_vars

\* the iteration labels of the console transcript, in the order printed
IterationLabels == SelectSeq(stdout, LAMBDA l : l.text = "Test Iteration #")

\* C30: in a console run with delay > 0 every round of probes is preceded
\* by one iteration label and the k-th label carries the number k, with
\* the list of the config file and with the built-in defaults.
C30_ConsoleIterationLabels ==
  (pc # "c_main" /\ delay > 0) =>
    /\ Len(IterationLabels) = dispatches
    /\ \A k \in 1..Len(IterationLabels) : IterationLabels[k].n = k

\* responses with at least one choice
WithChoice == {o \in Outcomes : o.raised = "no" /\ o.choices = 1}

\* C31: a response with at least one choice ends the attempt with status
\* Success and return value True whatever its usage: with a usage record
\* the endpoint's token count becomes the record's total, with usage
\* missing or null the token count is left as it was.
C31_UsageOptional ==
  [][\A i \in Idx : \A o \in WithChoice : ProbeReturn(i, o) =>
       LET n == servers[i].shortname
       IN /\ server_windows'[n].status = "Success"
          /\ result'[i]
          /\ server_windows'[n].tokens =
               IF o.usage = "present" THEN total_tokens ELSE server_windows[n].tokens]_vars

\* the endpoint state as setup_windows creates it
Initial(info) ==
  /\ info.status = "Waiting" /\ info.lines = << >>
  /\ info.start_time = None /\ info.end_time = None
  /\ info.response_time = None /\ info.tokens = None
  /\ info.response_ok = FALSE

\* C32: the step that handles a refresh request leaves every endpoint in
\* the initial state (Waiting, empty log, no times, no tokens, response_ok
\* false) under the same set of keys; and with delay = 0, once the single
\* run is over and the states are Waiting, they are Waiting after every
\* further step.
C32_RefreshResets ==
  [][ /\ (PollRefresh \/ CooldownRefresh) =>
           /\ DOMAIN server_windows' = DOMAIN server_windows
           /\ \A n \in Names : Initial(server_windows'[n])
      /\ (delay = 0 /\ test_completed /\ \A n \in Names : Status_(n) = "Waiting") =>
           /\ dispatches' = dispatches
           /\ \A n \in Names : Status_(n)' = "Waiting" ]_vars

\* the single run is over, a refresh has reset the endpoints, and the loop
\* has polled again since
C32_Witness ==
  /\ delay = 0 /\ test_completed /\ dispatches = 1
  /\ pc = "poll" /\ cmd = "None"
  /\ \A n \in Names : Initial(server_windows[n]) /\ appended[n] = << >>

\* two regions share no cell
Apart(a, b) ==
  \/ a.x + a.w <= b.x \/ b.x + b.w <= a.x
  \/ a.y + a.h <= b.y \/ b.y + b.h <= a.y

\* C33: on a terminal of H rows and W columns, when the regions are at
\* least one row high and one column wide, the regions of any two
\* endpoints share no cell, and every region lies below the 3-row header
\* band, above the 3-row footer band and within columns 0..W-1.
C33_RegionsDisjoint ==
  (NumServers >= 1 /\ \A i \in Idx : RegionOf(i).h >= 1 /\ RegionOf(i).w >= 1) =>
    /\ \A i, j \in Idx : i # j => Apart(RegionOf(i), RegionOf(j))
    /\ \A i \in Idx :
         /\ RegionOf(i).y >= 3
         /\ RegionOf(i).y + RegionOf(i).h <= term[1] - 3
         /\ RegionOf(i).x >= 0
         /\ RegionOf(i).x + RegionOf(i).w <= term[2]

\* ten endpoints after a resize to 31 x 100: four rows of six lines leave
\* one line unused above the footer, three columns of 33 leave one column
C33_Witness ==
  /\ NumServers = 10 /\ term = << 31, 100 >> /\ cmd = "resize"
  /\ RegionOf(10) = [h |-> 6, w |-> 33, y |-> 21, x |-> 0]
  /\ RegionOf(9).x + RegionOf(9).w = 99
  /\ RegionOf(9).y + RegionOf(9).h = RegionOf(10).y

\* C34: for every endpoint, every row update_server_window writes to (rows
\* 0 to 3, the timing row 4, the response row 5, the message rows from 6)
\* is a row of the endpoint's region, whatever the region size the layout
\* has produced and whatever the endpoint's state.
C34_RowsInsideRegion ==
  \A n \in Names :
    \A row \in WrittenRows(server_windows[n]) : row < server_windows[n].window.h

\* the last iteration that is followed has had its Cooldown
Horizon == pc = "cooldown" /\ ~Waiting /\ running /\ iteration >= MaxIter

\* C35: when every remote call returns or raises, (a) a quit request that
\* is waiting in the input queue leads to the end of the loop (Terminated),
\* and (b) with delay > 0 a Cooldown of iteration k leads to the dispatch
\* of iteration k + 1 unless a quit is read first; both up to the last
\* iteration that is followed.
C35_Liveness ==
  /\ (key = "q") ~> (pc = "done" \/ Horizon)
  /\ \A k \in 1..(MaxIter - 1) :
       (delay > 0 /\ pc = "cooldown" /\ iteration = k)
         ~> (~running \/ (pc = "await" /\ iteration = k + 1 /\ dispatches = k + 1))
  /\ (pc = "poll" /\ iteration = 1 /\ delay > 0 /\ dispatches = 0)
       ~> (~running \/ iteration = MaxIter)

\* the last iteration has been dispatched after the Cooldowns before it,
\* and a quit read in its Cooldown has ended the loop
C35_Witness ==
  /\ delay > 0 /\ iteration = MaxIter /\ dispatches = MaxIter
  /\ pc = "done" /\ cmd = "quit" /\ ~running

\* the command the claim C36 gives for what the read delivers
ClaimedCommand(k) ==
  CASE k = "q" -> "quit"
    [] k = "r" -> "refresh"
    [] k = "KEY_RESIZE" -> "resize"
    [] OTHER -> "None"

\* a pass of the main loop or of the countdown loop that calls check_input
PollStep ==
  \/ PollQuit \/ PollRefresh \/ PollResize \/ PollNone
  \/ CooldownQuit \/ CooldownRefresh \/ CooldownResize \/ CooldownNone

\* C36: at the loop top some poll can always be made, and every poll gives
\* one command: quit for 'q', refresh for 'r', resize for the resize key,
\* none for a timeout, any other key or a read that raises; the poll
\* empties the input queue, and a poll that gives none or quit leaves every
\* endpoint's state as it was.
C36_InputMapping ==
  /\ [](pc = "poll" => ENABLED (PollQuit \/ PollRefresh \/ PollResize \/ PollNone))
  /\ [][PollStep =>
          /\ cmd' = ClaimedCommand(key)
          /\ key' = "none"
          /\ cmd' \in {"None", "quit"} =>
               server_windows' = server_windows /\ appended' = appended]_vars

\* in the Cooldown a poll has given none and the countdown goes on; the
\* next read is one that raises
C36_Witness ==
  /\ pc = "cooldown" /\ cmd = "None" /\ key = "error" /\ Waiting
  /\ now - wait_start > 0 /\ footer.message = "NEXT TEST"
  /\ \E n \in Names : Status_(n) \in Terminal
\* a step in which setup_windows is called: the initial setup, a refresh
\* or a resize
SetupStep == (LoadServers /\ pc' = "poll") \/ PollRefresh \/ PollResize

\* C37: whatever the descriptor source holds and whether or not
\* --cels-only is given, every call of setup_windows (initial setup,
\* refresh, resize) is made with at least one endpoint, so that the grid
\* has at least one row and one column and the stored regions are as many
\* as the endpoints; and no UI exists for an empty endpoint list.
C37_SetupNonEmpty ==
  /\ [](servers = << >> => pc \in {"start", "exited"} /\ server_windows = << >>)
  /\ [][SetupStep =>
          /\ Len(servers') >= 1
          /\ GridRows(Len(servers')) >= 1 /\ GridCols(Len(servers')) >= 1
          /\ DOMAIN server_windows' = {servers'[i].shortname : i \in 1..Len(servers')}
          /\ DOMAIN server_windows' # {}]_vars

\* --cels-only with a source that has one endpoint off the public host:
\* the windows have been set up again for that one endpoint after a resize
C37_Witness ==
  /\ cels_only /\ config.kind = "servers" /\ Len(config.servers) = 2
  /\ Len(servers) = 1 /\ cmd = "resize" /\ pc = "test"
  /\ DOMAIN server_windows = {"scout"}
  /\ server_windows["scout"].window.w = term[2]

====
